---------------------------- MODULE Spec2Model ----------------------------
(***************************************************************************)
(* A model of the job-lifecycle core of twinmodules:                       *)
(*   - autoscale_sensors (core/components.py): reconcile the running       *)
(*     'virtual-sensor' Batch jobs against the S3 inventory;               *)
(*   - batch.get_running_jobs / kill_jobs / sendBatchJob (AWSBatch.py).    *)
(* Names are sequences of one-character strings so that the splitting and  *)
(* integer parsing of the code is computed, not assumed.                   *)
(***************************************************************************)
EXTENDS Integers, Sequences, FiniteSets, TLC

VARIABLES
    \* ---- AWS Batch queue and S3 bucket (owned by the remote services)
    jobs,          \* sequence of [name, status, killReq]; the job id is the index
    s3,            \* listing of the bucket under s3_IoT_key: sequence of [Key, Size]
    \* ---- one autoscale_sensors invocation after the other
    apc,           \* position in autoscale_sensors
    run,           \* number of the current invocation
    li,            \* get_running_jobs: index of the status being listed
    lst,           \* get_running_jobs: the list collected so far
    running_jobs,  \* autoscale_sensors: the (filtered) list of [jobName, jobId]
    running_id,    \* autoscale_sensors: keys parsed from the job names
    idnum,         \* autoscale_sensors: keys parsed from the object names
    deadjobs,      \* autoscale_sensors: argument of kill_jobs
    newjobs,       \* autoscale_sensors: object names handed to job_spin
    killCalled,    \* TRUE once kill_jobs was called in this invocation
    submitted,     \* job ids returned by job_spin in this invocation
    \* ---- observers of the environment (no counterpart in the code)
    ownExit,       \* some job reached a terminal status without being killed
    killLag,       \* an invocation began while a killed job was still active
    envSteps,      \* status changes the Batch service has made so far
    \* ---- batch.wait_for_jobs_finish and the jobs it waits for
    handleStatus,  \* status the service holds for each job id ("UNKNOWN": none)
    wargs,         \* the argument: [isList, items]
    wpc,           \* wait_for_jobs_finish: "polling" (in the loop), "returned", "raised"
    all_jobs,      \* wait_for_jobs_finish: the argument without duplicates
    w_running_jobs,\* wait_for_jobs_finish: running_jobs, the tracked list
    cnt,           \* wait_for_jobs_finish: cnt, kept modulo PrintEvery
    roundQueries,  \* the job id lists sent to describe_jobs in the latest round
    \* ---- observers of the poller (no counterpart in the code)
    reported,      \* ids some status query reported SUCCEEDED or FAILED
    queried,       \* ids some status query carried
    \* ---- one call of a method wrapped by exponential_backoff
    rop,           \* the method: "sendBatchJob", "_describe_jobs" or "kill_jobs"
    rarg,          \* kill_jobs: the list of job ids
    rpc,           \* "running", "returned" or "raised"
    attempt,       \* executions of the method body that have failed so far
    kidx,          \* kill_jobs: index of the next job of the loop
    tries,         \* how each execution of the body ended: "ok", "throttle", "other"
    sleeps,        \* the delays slept between the executions
    terminated,    \* kill_jobs: the ids sent to terminate_job, in order
    rresult,       \* the value returned to the caller
    rerror,        \* the error raised to the caller
    apiResp,       \* the response of the last successful remote call
    \* ---- one call of batch.get_running_jobs on a queue of its own
    qjobs,         \* the queue: sequence of [name, status]; the job id is the index
    gpc,           \* get_running_jobs: "listing" or "returned"
    gli,           \* index in jobStatus of the status being listed
    gcursor,       \* the paginator: id of the last job of the pages read so far
    glst,          \* lst, the list collected so far
    \* ---- observers of the lister (no counterpart in the code)
    gstart,        \* the ids that were active when the call began
    gseen,         \* for each entry of glst, the status the job had when listed
    gsteps,        \* status changes the service made during the call
    \* ---- one call of an operation that handles the errors of its remote calls
    eop,           \* the operation
    epc,           \* "running", "returned" or "raised"
    estep,         \* index of the next remote call of the operation
    edone,         \* the local flag `done` of the retry loops
    eret,          \* the value returned ("none" until the return)
    eraised,       \* <<>>, or the one error raised to the caller with its call
    elog,          \* the messages printed
    \* ---- observer (no counterpart in the code)
    ecaught,       \* the errors of remote calls that were caught and not raised
    \* ---- one call of watch_sqs and the queue it watches
    sqs,           \* the messages in the queue (receipt handles)
    kpurge,        \* the argument purge_queue
    kwait,         \* the argument waittime
    kpc,           \* "polling" (in the while loop) or "returned"
    klst,          \* lst of the last pass; the value returned
    kresp,         \* response['Messages'] of the last receive_message (<<>>: no key)
    kreq,          \* WaitTimeSeconds of the last receive_message (-1: none yet)
    \* ---- observers of watch_sqs (no counterpart in the code)
    kpolls,        \* receive_message calls so far, up to MaxPolls
    karrived,      \* messages that have arrived so far
    kdeletes,      \* observer: the receipt handles given to delete_message, in order
    kpurges,       \* observer: purge_queue calls so far
    \* ---- one construction of a batch object
    btype,         \* the argument infrastructure_type
    brole,         \* the argument IAM_role ("None": Python's None)
    bregion,       \* the argument region
    bpc,           \* "store", "validate", "client", "constructed" or "raised"
    bself,         \* the attributes assigned so far
    bclient,       \* TRUE once boto3.client('batch') was created
    berror,        \* the exception raised ("none": none)
    \* ---- one call of batch.removeJobDefinition
    jdefs,         \* the ACTIVE revisions of the job definition
    jpc,           \* "describe", "deregister", "returned" or "raised"
    all_defs,      \* the revisions of the last describe_job_definitions response
    jidx,          \* index in all_defs of the next revision of the for loop
    jerror,        \* the errors raised (at most one)
    jsleeps,       \* observer: time.sleep(1) calls so far, up to MaxSleeps
    \* ---- one call of SQLHandler.connect
    database,      \* self.database: the configured name, a sequence of characters
    dbs,           \* the databases of the MySQL server
    connection,    \* self.connection: <<>> closed, else <<[nodb, db]>>
    cpc,           \* position in connect(), "returned" or "raised"
    exists,        \* the result of database_exist()
    checked,       \* observer: the names database_exist asked the server for
    created,       \* observer: the names create_db asked the server to create
    cerror,        \* the MySQL error numbers raised (at most one)
    \* ---- one call of evaluate_data
    X,             \* the argument: [ndarray, shape]
    vqueue,        \* the jobs of the queue: [jobName, status, mine], the index is the jobId
    vpc,           \* "submit", "list", "wait", "returned" or "raised"
    vi,            \* the index i of the for loop over the rows
    response,      \* the jobId of the last sendBatchJob response (<<>>: unbound)
    vli,           \* get_running_jobs: index of the status being listed
    vlst,          \* get_running_jobs: the jobIds listed so far
    running_ids,   \* the list handed to wait_for_jobs_finish
    vrunning,      \* wait_for_jobs_finish: its running_jobs
    vadvance,      \* observer: status changes so far, up to MaxAdvance
    \* ---- one call of create_s3_buckets
    uregion,       \* the argument region (the code does not use it)
    bucket,        \* the bucket of that name: <<>> none, else <<[owner, block]>>
    upc,           \* "create_bucket", "put_public_access_block", "returned", "raised"
    ucalls,        \* observer: the calls that went through
    uerror,        \* the errors raised (at most one)
    ulog,          \* the lines printed
    \* ---- a timestream object and its delete_table calls
    tdatabase,     \* the Timestream database exists
    ttables,       \* the tables of the database
    selftable,     \* self.table
    tpc,           \* "database", "table" (in __init__), "ready", "raised"
    targ,          \* the argument of the last delete_table call: <<>> is None
    tdeletes,      \* delete_table calls that have returned, up to MaxDeletes
    terror,        \* the errors raised (at most one)
    \* ---- one call of containerize
    repositories,     \* the names of the ECR repositories
    files_to_process, \* the argument, as the list of its repository names
    hpc,              \* "exist", "create", "build"
    existance,        \* the dict existance, in the order of repo_info
    hidx,             \* index of the loop under way
    built,            \* the tagnames whose _build_and_push has started
    \* ---- one call of send_asset_property_data
    data,                 \* the argument data
    data_time,            \* the argument data_time, of the same length
    ensure_time_contrain, \* the argument of that name
    ipc,                  \* "shift", "build", "push", "returned" or "raised"
    chnk,                 \* the loop variable chnk
    insertion_data,       \* the entries built so far
    ipos,                 \* the loop variable i of the push loop
    icalls,               \* observer: entries of each batch_put_asset_property_value call
    iresp,                \* the last response of batch_put_asset_property_value
    ierror,               \* the exception classes raised (at most one)
    \* ---- two autoscale_sensors invocations at the same time
    zqueue,        \* work-item key -> number of its non-terminal virtual-sensor jobs
    zinventory,    \* the keys of the objects in the bucket
    zpc,           \* invocation -> "list", "s3", "kill", "submit", "done"
    zrunning_id,   \* invocation -> its list running_id
    zidnum,        \* invocation -> its list idnum
    zsubmitted,    \* observer: invocation -> the keys it has submitted a job for
    zoverlap       \* observer: an invocation listed the queue while the other
                   \* was between its listing and its submissions

dvars == <<jobs, s3, apc, run, li, lst, running_jobs, running_id, idnum,
           deadjobs, newjobs, killCalled, submitted, ownExit, killLag, envSteps>>

pvars == <<handleStatus, wargs, wpc, all_jobs, w_running_jobs, cnt, roundQueries,
           reported, queried>>

rvars == <<rop, rarg, rpc, attempt, kidx, tries, sleeps, terminated, rresult, rerror,
           apiResp>>

gvars == <<qjobs, gpc, gli, gcursor, glst, gstart, gseen, gsteps>>

evars == <<eop, epc, estep, edone, eret, eraised, elog, ecaught>>

kvars == <<sqs, kpurge, kwait, kpc, klst, kresp, kreq, kpolls, karrived, kdeletes, kpurges>>

bvars == <<btype, brole, bregion, bpc, bself, bclient, berror>>

jvars == <<jdefs, jpc, all_defs, jidx, jerror, jsleeps>>

cvars == <<database, dbs, connection, cpc, exists, checked, created, cerror>>

vvars == <<X, vqueue, vpc, vi, response, vli, vlst, running_ids, vrunning, vadvance>>

uvars == <<uregion, bucket, upc, ucalls, uerror, ulog>>

tvars == <<tdatabase, ttables, selftable, tpc, targ, tdeletes, terror>>

hvars == <<repositories, files_to_process, hpc, existance, hidx, built>>

ivars == <<data, data_time, ensure_time_contrain, ipc, chnk, insertion_data, ipos, icalls, iresp, ierror>>

zvars == <<zqueue, zinventory, zpc, zrunning_id, zidnum, zsubmitted, zoverlap>>

vars == <<dvars, pvars, rvars, gvars, evars, kvars, bvars, jvars, cvars, vvars, uvars, tvars, hvars, ivars, zvars>>

\* what the steps of one component leave alone
nonD == <<pvars, rvars, gvars, evars, kvars, bvars, jvars, cvars, vvars, uvars, tvars, hvars, ivars, zvars>>
nonP == <<dvars, rvars, gvars, evars, kvars, bvars, jvars, cvars, vvars, uvars, tvars, hvars, ivars, zvars>>
nonR == <<dvars, pvars, gvars, evars, kvars, bvars, jvars, cvars, vvars, uvars, tvars, hvars, ivars, zvars>>
nonG == <<dvars, pvars, rvars, evars, kvars, bvars, jvars, cvars, vvars, uvars, tvars, hvars, ivars, zvars>>
nonE == <<dvars, pvars, rvars, gvars, kvars, bvars, jvars, cvars, vvars, uvars, tvars, hvars, ivars, zvars>>
nonK == <<dvars, pvars, rvars, gvars, evars, bvars, jvars, cvars, vvars, uvars, tvars, hvars, ivars, zvars>>
nonB == <<dvars, pvars, rvars, gvars, evars, kvars, jvars, cvars, vvars, uvars, tvars, hvars, ivars, zvars>>
nonJ == <<dvars, pvars, rvars, gvars, evars, kvars, bvars, cvars, vvars, uvars, tvars, hvars, ivars, zvars>>
nonC == <<dvars, pvars, rvars, gvars, evars, kvars, bvars, jvars, vvars, uvars, tvars, hvars, ivars, zvars>>
nonV == <<dvars, pvars, rvars, gvars, evars, kvars, bvars, jvars, cvars, uvars, tvars, hvars, ivars, zvars>>
nonU == <<dvars, pvars, rvars, gvars, evars, kvars, bvars, jvars, cvars, vvars, tvars, hvars, ivars, zvars>>
nonT == <<dvars, pvars, rvars, gvars, evars, kvars, bvars, jvars, cvars, vvars, uvars, hvars, ivars, zvars>>
nonH == <<dvars, pvars, rvars, gvars, evars, kvars, bvars, jvars, cvars, vvars, uvars, tvars, ivars, zvars>>
nonI == <<dvars, pvars, rvars, gvars, evars, kvars, bvars, jvars, cvars, vvars, uvars, tvars, hvars, zvars>>
nonZ == <<dvars, pvars, rvars, gvars, evars, kvars, bvars, jvars, cvars, vvars, uvars, tvars, hvars, ivars>>

-----------------------------------------------------------------------------
(* Bounds of the model *)

MaxInitJobs == 2      \* jobs in the queue before the first invocation
MaxObjects  == 2      \* non-placeholder objects in the bucket
MaxRuns     == 2      \* autoscale_sensors invocations in a behaviour
MaxEnvSteps == 1      \* status changes the Batch service makes in a behaviour
MaxSmall    == 3      \* largest of the small inputs of wait_for_jobs_finish
BigInput    == 250    \* the large input of wait_for_jobs_finish
MaxSlow     == 1      \* jobs of an input that are not terminal from the start
MaxKillList == 2      \* length of the list given to kill_jobs in the retry model
MaxQJobs    == 3      \* jobs in the queue get_running_jobs lists
PageSize    == 1      \* jobs per page of a list_jobs response
MaxQSteps   == 2      \* status changes during one get_running_jobs call
QueueUrls   == 2      \* queue urls list_queues returns to delete_sqs
MaxMsgs     == 3      \* messages that arrive in the SQS queue in a behaviour
MaxBatch    == 2      \* messages in one receive_message response
MaxPolls    == 3      \* receive_message calls that are counted
MaxDefs     == 4      \* ACTIVE revisions of the job definition at the start
DefsPage    == 2      \* revisions in one describe_job_definitions response
MaxNameLen  == 2      \* characters of a configured database name
MaxRows     == 2      \* rows of X
MaxAdvance  == 3      \* status changes of the queue during one evaluate_data
MaxCols     == 2      \* length of a 1-D array X
MaxForeign  == 1      \* jobs of other callers in the queue
MaxDeletes  == 2      \* delete_table calls on one timestream object
MaxRepoLen  == 2      \* characters of a repository name
MaxFiles    == 2      \* entries of files_to_process
MaxPoints   == 105    \* data points of the largest input
MaxKeys     == 2      \* work-item keys of the two concurrent invocations
MaxSleeps   == 3      \* time.sleep(1) calls that are counted

-----------------------------------------------------------------------------
(* Program constants *)

DescribeLimit == 100  \* running_jobs[:100]
PrintEvery    == 50   \* cnt % 50
DeleteTries   == 5    \* terminateBatch: for _ in range(5)
QueueTries    == 3    \* _generateQueue: for _ in range(3)
LongPollMax   == 20   \* WaitTimeSeconds=min(waittime,20)
ValuesPerEntry == 10  \* send_asset_property_data: for i in range(10)
EntriesPerCall == 10  \* send_asset_property_data: range(0, len(insertion_data), 10)

-----------------------------------------------------------------------------
(* Python string and list operations used by the code *)

Digits == {"0","1","2","3","4","5","6","7","8","9"}

DigitVal(c) ==
    CASE c = "0" -> 0 [] c = "1" -> 1 [] c = "2" -> 2 [] c = "3" -> 3
      [] c = "4" -> 4 [] c = "5" -> 5 [] c = "6" -> 6 [] c = "7" -> 7
      [] c = "8" -> 8 [] c = "9" -> 9

SetMax(S) == CHOOSE x \in S : \A y \in S : y <= x
SetMin(S) == CHOOSE x \in S : \A y \in S : x <= y

Positions(s, c) == {i \in 1..Len(s) : s[i] = c}

Min(a, b) == IF a < b THEN a ELSE b

\* s.split(c)[-1]
SplitLast(s, c) ==
    IF Positions(s, c) = {} THEN s
    ELSE SubSeq(s, SetMax(Positions(s, c)) + 1, Len(s))

\* s.split(c)[0]
SplitFirst(s, c) ==
    IF Positions(s, c) = {} THEN s
    ELSE SubSeq(s, 1, SetMin(Positions(s, c)) - 1)

\* sub in s
Contains(s, sub) ==
    \E i \in 1..(Len(s) - Len(sub) + 1) : SubSeq(s, i, i + Len(sub) - 1) = sub

\* os.path.basename(s)
Basename(s) == SplitLast(s, "/")

\* the digits-and-underscores part of an int() literal, after the sign
IntBody(s) == IF s # <<>> /\ s[1] \in {"+", "-"} THEN Tail(s) ELSE s

\* int(s) does not raise ValueError: an optional sign, then decimal digits,
\* single underscores allowed between digits (no whitespace in the alphabet)
IsInt(s) ==
    LET b == IntBody(s) IN
    /\ b # <<>>
    /\ \A i \in 1..Len(b) : b[i] \in Digits \cup {"_"}
    /\ b[1] # "_" /\ b[Len(b)] # "_"
    /\ \A i \in 1..(Len(b) - 1) : ~(b[i] = "_" /\ b[i + 1] = "_")

RECURSIVE DecVal(_, _)
DecVal(b, acc) ==
    IF b = <<>> THEN acc
    ELSE IF Head(b) = "_" THEN DecVal(Tail(b), acc)
    ELSE DecVal(Tail(b), 10 * acc + DigitVal(Head(b)))

\* int(s), for s with IsInt(s)
IntVal(s) ==
    IF s[1] = "-" THEN 0 - DecVal(IntBody(s), 0) ELSE DecVal(IntBody(s), 0)

\* [s[i] for i in range(len(s)) if keep[i]], evaluated by halves
RECURSIVE KeepSeq(_, _)
KeepSeq(s, keep) ==
    IF Len(s) = 0 THEN <<>>
    ELSE IF Len(s) = 1 THEN (IF keep[1] THEN s ELSE <<>>)
    ELSE LET h == Len(s) \div 2
         IN KeepSeq(SubSeq(s, 1, h), SubSeq(keep, 1, h))
               \o KeepSeq(SubSeq(s, h + 1, Len(s)), SubSeq(keep, h + 1, Len(s)))

Range(s) == {s[i] : i \in 1..Len(s)}

-----------------------------------------------------------------------------
(* Names *)

VirtualSensor == <<"v","i","r","t","u","a","l","-","s","e","n","s","o","r">>

\* 'twinflow-batch-virtual-sensor-', the job name prefix of job_spin
JobNamePrefix ==
    <<"t","w","i","n","f","l","o","w","-","b","a","t","c","h","-">>
        \o VirtualSensor \o <<"-">>

\* job names that may be in the queue before the first invocation
CandidateJobNames ==
    << VirtualSensor \o <<"-","1">>,
       VirtualSensor \o <<"-","3">>,
       <<"c","a","l","i","b","r","a","t","i","o","n","-","2">>,
       VirtualSensor \o <<"-","x">> >>

\* s3_IoT_key, here 'd/'
S3IoTKey == <<"d","/">>

\* the bucket listing is in key order; the first entry is the folder placeholder
CandidateObjects ==
    << [Key |-> S3IoTKey, Size |-> 0],
       [Key |-> S3IoTKey \o <<"t","_","-","1",".","c","s","v">>, Size |-> 40],
       [Key |-> S3IoTKey \o <<"t","_","1",".","c","s","v">>, Size |-> 40],
       [Key |-> S3IoTKey \o <<"t","_","2",".","c","s","v">>, Size |-> 40],
       [Key |-> S3IoTKey \o <<"t","_","x",".","c","s","v">>, Size |-> 40],
       [Key |-> S3IoTKey \o <<"u","_","1",".","c","s","v">>, Size |-> 40] >>

-----------------------------------------------------------------------------
(* AWS Batch job statuses *)

jobStatus == <<"SUBMITTED", "PENDING", "RUNNABLE", "STARTING", "RUNNING">>
Terminal == {"SUCCEEDED", "FAILED"}
Active == Range(jobStatus)

StatusIndex(st) == CHOOSE i \in 1..Len(jobStatus) : jobStatus[i] = st

-----------------------------------------------------------------------------
(* autoscale_sensors: the pure parts *)

\* int(x[0].split('-')[-1])
JobKeyText(name) == SplitLast(name, "-")
JobKey(name) == IntVal(JobKeyText(name))

\* int(x.split('_')[-1].split('.')[0])
ObjKeyText(key) == SplitFirst(SplitLast(key, "_"), ".")
ObjKey(key) == IntVal(ObjKeyText(key))

\* s3_all_contents: the keys of the objects with Size > 1
IncomingSensorData(listing) ==
    LET keep == [i \in 1..Len(listing) |-> listing[i].Size > 1]
        kept == KeepSeq(listing, keep)
    IN [i \in 1..Len(kept) |-> kept[i].Key]

\* [x for x in running_jobs if 'virtual-sensor' in x[0]], when running_jobs is not empty
FilterVirtualSensors(l) ==
    KeepSeq(l, [i \in 1..Len(l) |-> Contains(l[i][1], VirtualSensor)])

\* variant: the test of the comprehension inverted
DeadKeys_Inverted(rid, idn) ==
    KeepSeq(rid, [i \in 1..Len(rid) |-> rid[i] \in Range(idn)])

\* [x for x in running_id if x not in idnum]
DeadKeys(rid, idn) ==
    KeepSeq(rid, [i \in 1..Len(rid) |-> rid[i] \notin Range(idn)])

\* [x[1] for x in running_jobs if int(x[0].split('-')[-1]) in deadjobs]
DeadJobIds(rj, dead) ==
    LET kept == KeepSeq(rj, [i \in 1..Len(rj) |-> JobKey(rj[i][1]) \in Range(dead)])
    IN [i \in 1..Len(kept) |-> kept[i][2]]

\* [newjobs[i] for i,x in enumerate(idnum) if x not in running_id]
NewJobs(incoming, idn, rid) ==
    KeepSeq([i \in 1..Len(idn) |-> Basename(incoming[i])],
            [i \in 1..Len(idn) |-> idn[i] \notin Range(rid)])

\* job_spin: the name of the job submitted for an object
SpinJobName(input_data_file) ==
    JobNamePrefix \o SplitFirst(SplitLast(input_data_file, "_"), ".")

-----------------------------------------------------------------------------
(* Initial states *)

\* subsequences of s that keep the order of s
RECURSIVE SubSeqs(_)
SubSeqs(s) ==
    IF s = <<>> THEN {<<>>}
    ELSE LET rest == SubSeqs(Tail(s))
         IN rest \cup {<<Head(s)>> \o r : r \in rest}

RealObjects(listing) == Len(IncomingSensorData(listing))

DInit ==
    /\ \E names \in SubSeqs(CandidateJobNames) :
         /\ Len(names) <= MaxInitJobs
         /\ jobs = [i \in 1..Len(names) |->
                      [name |-> names[i], status |-> "RUNNING", killReq |-> FALSE]]
    /\ s3 \in {l \in SubSeqs(CandidateObjects) :
                 /\ RealObjects(l) <= MaxObjects
                 /\ (l # <<>> => l[1] = CandidateObjects[1])}
    /\ apc = "listing"
    /\ run = 1
    /\ li = 1
    /\ lst = <<>>
    /\ running_jobs = <<>>
    /\ running_id = <<>>
    /\ idnum = <<>>
    /\ deadjobs = <<>>
    /\ newjobs = <<>>
    /\ killCalled = FALSE
    /\ submitted = <<>>
    /\ ownExit = FALSE
    /\ killLag = FALSE
    /\ envSteps = 0

-----------------------------------------------------------------------------
(* batch.get_running_jobs: one listing per status, in the order of jobStatus *)

\* the [jobName, jobId] pairs of the jobs the service reports with status st
ListJobs(st) ==
    LET ids == [i \in 1..Len(jobs) |-> i]
        kept == KeepSeq(ids, [i \in 1..Len(jobs) |-> jobs[i].status = st])
    IN [i \in 1..Len(kept) |-> <<jobs[kept[i]].name, kept[i]>>]

ListStatus ==
    /\ apc = "listing"
    /\ lst' = lst \o ListJobs(jobStatus[li])
    /\ IF li = Len(jobStatus)
         THEN apc' = "diff" /\ li' = li
         ELSE apc' = apc /\ li' = li + 1
    /\ UNCHANGED <<jobs, s3, run, running_jobs, running_id, idnum, deadjobs,
                   newjobs, killCalled, submitted, ownExit, killLag, envSteps>>
    /\ UNCHANGED nonD

-----------------------------------------------------------------------------
(* autoscale_sensors, from the return of get_running_jobs to the kill list *)

Raise ==
    /\ apc' = "raised"
    /\ UNCHANGED <<running_id, idnum, deadjobs, newjobs>>

\* [int(x[0].split('-')[-1]) for x in running_jobs]: the list, or the
\* ValueError of the first int() that fails
RunningIdOrError(rj) ==
    IF \E i \in 1..Len(rj) : ~IsInt(JobKeyText(rj[i][1]))
      THEN [ok |-> FALSE, val |-> <<>>]
      ELSE [ok |-> TRUE, val |-> [i \in 1..Len(rj) |-> JobKey(rj[i][1])]]

\* variant: an object name that does not parse is left out of the list
IdnumOrError_Skip(incoming) ==
    LET good == KeepSeq(incoming, [i \in 1..Len(incoming) |-> IsInt(ObjKeyText(incoming[i]))])
    IN [ok |-> TRUE, val |-> [i \in 1..Len(good) |-> ObjKey(good[i])]]

\* [int(x.split('_')[-1].split('.')[0]) for x in incoming_sensor_data]
IdnumOrError(incoming) ==
    IF \E i \in 1..Len(incoming) : ~IsInt(ObjKeyText(incoming[i]))
      THEN [ok |-> FALSE, val |-> <<>>]
      ELSE [ok |-> TRUE, val |-> [i \in 1..Len(incoming) |-> ObjKey(incoming[i])]]

Diff ==
    /\ apc = "diff"
    /\ LET rj == IF lst # <<>> THEN FilterVirtualSensors(lst) ELSE lst
           incoming == IncomingSensorData(s3)
       IN /\ running_jobs' = rj
          /\ IF ~RunningIdOrError(rj).ok
               THEN Raise             \* ValueError of int(), line 133
             ELSE IF s3 = <<>>
               THEN Raise             \* KeyError 'Contents' in s3_all_contents
             ELSE IF ~IdnumOrError(incoming).ok
               THEN Raise             \* ValueError of int(), line 137
             ELSE LET rid == RunningIdOrError(rj).val
                      idn == IdnumOrError(incoming).val
                      dead == DeadKeys(rid, idn)
                  IN /\ running_id' = rid
                     /\ idnum' = idn
                     /\ newjobs' = NewJobs(incoming, idn, rid)
                     /\ IF rj # <<>>
                          THEN deadjobs' = DeadJobIds(rj, dead) /\ apc' = "kill"
                          ELSE deadjobs' = dead /\ apc' = "submit"
    /\ UNCHANGED <<jobs, s3, run, li, lst, killCalled, submitted, ownExit, killLag, envSteps>>
    /\ UNCHANGED nonD

\* batch.kill_jobs(deadjobs): terminate_job for every id of the list
KillJobs(js, ids) ==
    [i \in 1..Len(js) |->
        IF i \in Range(ids) THEN [js[i] EXCEPT !.killReq = TRUE] ELSE js[i]]

Kill ==
    /\ apc = "kill"
    /\ jobs' = KillJobs(jobs, deadjobs)
    /\ killCalled' = TRUE
    /\ apc' = "submit"
    /\ UNCHANGED <<s3, run, li, lst, running_jobs, running_id, idnum, deadjobs,
                   newjobs, submitted, ownExit, killLag, envSteps>>
    /\ UNCHANGED nonD

\* Parallel(...)(delayed(job_spin)(job_i) for job_i in newjobs): one
\* sendBatchJob per entry of newjobs; the service gives each job a fresh id
SubmitJobs(js, files) ==
    js \o [i \in 1..Len(files) |->
             [name |-> SpinJobName(files[i]), status |-> "SUBMITTED", killReq |-> FALSE]]

Submit ==
    /\ apc = "submit"
    /\ jobs' = SubmitJobs(jobs, newjobs)
    /\ submitted' = [i \in 1..Len(newjobs) |-> Len(jobs) + i]
    /\ apc' = "done"
    /\ UNCHANGED <<s3, run, li, lst, running_jobs, running_id, idnum, deadjobs,
                   newjobs, killCalled, ownExit, killLag, envSteps>>
    /\ UNCHANGED nonD

\* the next invocation of autoscale_sensors (all locals are fresh)
NextRun ==
    /\ apc \in {"done", "raised"}
    /\ run < MaxRuns
    /\ run' = run + 1
    /\ apc' = "listing"
    /\ li' = 1
    /\ lst' = <<>>
    /\ running_jobs' = <<>>
    /\ running_id' = <<>>
    /\ idnum' = <<>>
    /\ deadjobs' = <<>>
    /\ newjobs' = <<>>
    /\ killCalled' = FALSE
    /\ submitted' = <<>>
    /\ killLag' = \E j \in 1..Len(jobs) : jobs[j].killReq /\ jobs[j].status \in Active
    /\ UNCHANGED <<jobs, s3, ownExit, envSteps>>
    /\ UNCHANGED nonD

-----------------------------------------------------------------------------
(* The Batch service: jobs move forward through their statuses *)

EnvAdvance(j) ==
    /\ envSteps < MaxEnvSteps
    /\ envSteps' = envSteps + 1
    /\ jobs[j].status \in Active
    /\ jobs[j].status # "RUNNING"
    /\ jobs' = [jobs EXCEPT ![j].status = jobStatus[StatusIndex(jobs[j].status) + 1]]
    /\ UNCHANGED <<s3, apc, run, li, lst, running_jobs, running_id, idnum,
                   deadjobs, newjobs, killCalled, submitted, ownExit, killLag>>
    /\ UNCHANGED nonD

\* the container exits
EnvFinish(j) ==
    /\ envSteps < MaxEnvSteps
    /\ envSteps' = envSteps + 1
    /\ jobs[j].status = "RUNNING"
    /\ \E st \in Terminal : jobs' = [jobs EXCEPT ![j].status = st]
    /\ ownExit' = (ownExit \/ ~jobs[j].killReq)
    /\ UNCHANGED <<s3, apc, run, li, lst, running_jobs, running_id, idnum,
                   deadjobs, newjobs, killCalled, submitted, killLag>>
    /\ UNCHANGED nonD

\* a terminate_job request takes effect
EnvTerminate(j) ==
    /\ envSteps < MaxEnvSteps
    /\ envSteps' = envSteps + 1
    /\ jobs[j].status \in Active
    /\ jobs[j].killReq
    /\ jobs' = [jobs EXCEPT ![j].status = "FAILED"]
    /\ UNCHANGED <<s3, apc, run, li, lst, running_jobs, running_id, idnum,
                   deadjobs, newjobs, killCalled, submitted, ownExit, killLag>>
    /\ UNCHANGED nonD

DNext ==
    \/ ListStatus
    \/ Diff
    \/ Kill
    \/ Submit
    \/ NextRun
    \/ \E j \in 1..Len(jobs) : EnvAdvance(j)
    \/ \E j \in 1..Len(jobs) : EnvFinish(j)
    \/ \E j \in 1..Len(jobs) : EnvTerminate(j)


-----------------------------------------------------------------------------
(* batch.wait_for_jobs_finish *)

\* list(set(l)): the order of a set is arbitrary; ids are taken in increasing
\* order, the positions of the slow jobs being chosen freely in PInit
RECURSIVE ListOfSet(_)
ListOfSet(S) ==
    IF S = {} THEN <<>>
    ELSE IF Cardinality(S) = 1 THEN <<SetMin(S)>>
    ELSE LET m == (SetMin(S) + SetMax(S)) \div 2
         IN ListOfSet({x \in S : x <= m}) \o ListOfSet({x \in S : x > m})

\* variant: no slice, the whole list goes into the query
FirstBatch_All(rj) == rj

\* running_jobs[:100]
FirstBatch(rj) == SubSeq(rj, 1, IF Len(rj) < DescribeLimit THEN Len(rj) ELSE DescribeLimit)

\* variant: one query per slice of 100 ids
DescribeCalls_Chunked(rj) ==
    [k \in 1..((Len(rj) + DescribeLimit - 1) \div DescribeLimit) |->
        SubSeq(rj, (k - 1) * DescribeLimit + 1, Min(k * DescribeLimit, Len(rj)))]

\* the describe_jobs calls of one round: one call, on the first batch
DescribeCalls(rj) == << FirstBatch(rj) >>

\* batch_client.describe_jobs(jobs=ids)['jobs']: the jobs the service knows
DescribeJobs(ids) ==
    LET kept == KeepSeq(ids, [i \in 1..Len(ids) |-> handleStatus[ids[i]] # "UNKNOWN"])
    IN [i \in 1..Len(kept) |-> [jobId |-> kept[i], status |-> handleStatus[kept[i]]]]

\* variant: every reported job counts as done
DoneLst_All(status) == [i \in 1..Len(status) |-> status[i].jobId]

\* [x['jobId'] for x in status if x['status'] == 'FAILED' or x['status'] == 'SUCCEEDED']
DoneLst(status) ==
    LET kept == KeepSeq(status, [i \in 1..Len(status) |->
                          status[i].status = "FAILED" \/ status[i].status = "SUCCEEDED"])
    IN [i \in 1..Len(kept) |-> kept[i].jobId]

\* for doneid in done_lst:
\*     if doneid in running_jobs: del running_jobs[running_jobs.index(doneid)]
\* Each pass deletes the first remaining occurrence of doneid, so the k-th
\* occurrence of a value in running_jobs goes iff done_lst holds it k times or more.
Occurrences(l, v, upto) == Cardinality({k \in 1..upto : l[k] = v})

\* variant: the loop stops after its first pass
RemoveAllDone_FirstOnly(rj, done_lst) ==
    IF done_lst = <<>> THEN rj
    ELSE KeepSeq(rj, [i \in 1..Len(rj) |->
                        ~(rj[i] = done_lst[1] /\ Occurrences(rj, rj[i], i) = 1)])

RemoveAllDone(rj, done_lst) ==
    KeepSeq(rj, [i \in 1..Len(rj) |->
                   Occurrences(rj, rj[i], i) > Occurrences(done_lst, rj[i], Len(done_lst))])

\* variant: the loop ends with one id still tracked
WhileCond_OffByOne(rj, c) == Len(rj) > 1

\* variant: the loop gives up after three rounds
WhileCond_Timeout(rj, c) == Len(rj) > 0 /\ c < 3

\* while len(running_jobs) > 0
WhileCond(rj, c) == Len(rj) > 0

\* entry: a non-list is wrapped (wargs.items holds it), all_jobs = list(set(all_jobs))
EntryList(args) == ListOfSet(Range(args.items))

\* one pass of the loop body
PollRound ==
    /\ wpc = "polling"
    /\ WhileCond(w_running_jobs, cnt)
    /\ LET calls == DescribeCalls(w_running_jobs)
           status == DescribeJobs(calls[1])
           done_lst == DoneLst(status)
       IN /\ roundQueries' = calls
          /\ w_running_jobs' = RemoveAllDone(w_running_jobs, done_lst)
          /\ reported' = reported \cup
                 {status[i].jobId : i \in {k \in 1..Len(status) : status[k].status \in Terminal}}
          /\ queried' = queried \cup UNION {Range(calls[i]) : i \in 1..Len(calls)}
    /\ cnt' = (cnt + 1) % PrintEvery
    /\ UNCHANGED <<handleStatus, wargs, wpc, all_jobs>>
    /\ UNCHANGED nonP

\* _describe_jobs raises (an error the retry wrapper does not absorb)
PollRaise ==
    /\ wpc = "polling"
    /\ WhileCond(w_running_jobs, cnt)
    /\ wpc' = "raised"
    /\ roundQueries' = DescribeCalls(w_running_jobs)
    /\ UNCHANGED <<handleStatus, wargs, all_jobs, w_running_jobs, cnt, reported, queried>>
    /\ UNCHANGED nonP

\* the loop condition fails: the function returns
WReturn ==
    /\ wpc = "polling"
    /\ ~WhileCond(w_running_jobs, cnt)
    /\ wpc' = "returned"
    /\ UNCHANGED <<handleStatus, wargs, all_jobs, w_running_jobs, cnt, roundQueries,
                   reported, queried>>
    /\ UNCHANGED nonP

\* the Batch service: a running job ends
HandleFinish(h) ==
    /\ handleStatus[h] = "RUNNING"
    /\ \E st \in Terminal : handleStatus' = [handleStatus EXCEPT ![h] = st]
    /\ UNCHANGED <<wargs, wpc, all_jobs, w_running_jobs, cnt, roundQueries,
                   reported, queried>>
    /\ UNCHANGED nonP

\* sizes of the inputs
InputSizes == (0..MaxSmall) \cup {DescribeLimit, DescribeLimit + 1, BigInput}

\* positions whose job may be slow or unknown to the service
Watch(n) ==
    IF n <= MaxSmall THEN 1..n ELSE {1, DescribeLimit, DescribeLimit + 1, n}

PInit ==
    /\ \E n \in InputSizes :
         /\ \E slow \in SUBSET Watch(n) :
              /\ Cardinality(slow) <= MaxSlow
              /\ \E st \in [slow -> {"RUNNING", "UNKNOWN"}] :
                   handleStatus = [h \in 1..n |->
                       IF h \in slow THEN st[h]
                       ELSE IF h % 2 = 1 THEN "SUCCEEDED" ELSE "FAILED"]
         /\ \/ wargs = [isList |-> TRUE, items |-> [i \in 1..n |-> i]]
            \/ n >= 1 /\ wargs = [isList |-> TRUE,
                                  items |-> [i \in 1..(n + 1) |-> IF i <= n THEN i ELSE 1]]
            \/ n = 1 /\ wargs = [isList |-> FALSE, items |-> <<1>>]
    /\ wpc = "polling"
    /\ all_jobs = EntryList(wargs)
    /\ w_running_jobs = all_jobs          \* copy.deepcopy(all_jobs)
    /\ cnt = 0
    /\ roundQueries = <<>>
    /\ reported = {}
    /\ queried = {}

\* the poller is not in use
PIdle ==
    /\ handleStatus = <<>>
    /\ wargs = [isList |-> TRUE, items |-> <<>>]
    /\ wpc = "unused"
    /\ all_jobs = <<>>
    /\ w_running_jobs = <<>>
    /\ cnt = 0
    /\ roundQueries = <<>>
    /\ reported = {}
    /\ queried = {}

\* autoscale_sensors is not in use
DIdle ==
    /\ jobs = <<>>
    /\ s3 = <<>>
    /\ apc = "unused"
    /\ run = 1
    /\ li = 1
    /\ lst = <<>>
    /\ running_jobs = <<>>
    /\ running_id = <<>>
    /\ idnum = <<>>
    /\ deadjobs = <<>>
    /\ newjobs = <<>>
    /\ killCalled = FALSE
    /\ submitted = <<>>
    /\ ownExit = FALSE
    /\ killLag = FALSE
    /\ envSteps = 0

-----------------------------------------------------------------------------
(* exponential_backoff around sendBatchJob, _describe_jobs and kill_jobs *)

\* the methods decorated with @exponential_backoff()
WrappedMethods == {"sendBatchJob", "_describe_jobs", "kill_jobs"}

\* variant: kill_jobs is not decorated
IsWrapped_NotKill(op) == op \in {"sendBatchJob", "_describe_jobs"}

IsWrapped(op) == op \in WrappedMethods

\* variant: the loop of kill_jobs catches the error and goes on
ErrorEscapes_NotKill(op) == op # "kill_jobs"

\* none of the three method bodies has a try/except: an error of the remote
\* call leaves the body
ErrorEscapes(op) == TRUE

\* the decorator: the most executions of the body it makes
MaxAttempts == 5

\* the decorator: the delay slept after the k-th failed execution (k from 0)
BackoffDelay(k) == 2 ^ k

\* the decorator: the error message carries the rate-limit marker
IsThrottle(err) == err = "throttle"

SubmitResponses == {[jobId |-> "id-a"], [jobId |-> "id-b"]}
DescribeResponses == {[jobs |-> <<>>], [jobs |-> <<[jobId |-> 1, status |-> "RUNNING"]>>]}

RInit ==
    /\ rop \in WrappedMethods
    /\ rarg \in IF rop = "kill_jobs"
                  THEN {[i \in 1..n |-> i] : n \in 0..MaxKillList}
                  ELSE {<<>>}
    /\ rpc = "running"
    /\ attempt = 0
    /\ kidx = 1
    /\ tries = <<>>
    /\ sleeps = <<>>
    /\ terminated = <<>>
    /\ rresult = "none"
    /\ rerror = "none"
    /\ apiResp = "none"

\* no wrapped call is in progress
RIdle ==
    /\ rop = "none"
    /\ rarg = <<>>
    /\ rpc = "unused"
    /\ attempt = 0
    /\ kidx = 1
    /\ tries = <<>>
    /\ sleeps = <<>>
    /\ terminated = <<>>
    /\ rresult = "none"
    /\ rerror = "none"
    /\ apiResp = "none"

\* the body is about to make a remote call
AtRemoteCall ==
    /\ rpc = "running"
    /\ rop = "kill_jobs" => kidx <= Len(rarg)

\* sendBatchJob: submit_job answers and the response is returned
SubmitOk ==
    /\ AtRemoteCall
    /\ rop = "sendBatchJob"
    /\ \E resp \in SubmitResponses :
         /\ apiResp' = resp
         /\ rresult' = resp
    /\ tries' = Append(tries, "ok")
    /\ rpc' = "returned"
    /\ UNCHANGED <<rop, rarg, attempt, kidx, sleeps, terminated, rerror>>
    /\ UNCHANGED nonR

\* _describe_jobs: describe_jobs answers and its 'jobs' are returned
DescribeOk ==
    /\ AtRemoteCall
    /\ rop = "_describe_jobs"
    /\ \E resp \in DescribeResponses :
         /\ apiResp' = resp
         /\ rresult' = resp.jobs
    /\ tries' = Append(tries, "ok")
    /\ rpc' = "returned"
    /\ UNCHANGED <<rop, rarg, attempt, kidx, sleeps, terminated, rerror>>
    /\ UNCHANGED nonR

\* kill_jobs: terminate_job answers for the job at hand
TerminateOk ==
    /\ AtRemoteCall
    /\ rop = "kill_jobs"
    /\ terminated' = Append(terminated, rarg[kidx])
    /\ kidx' = kidx + 1
    /\ UNCHANGED <<rop, rarg, rpc, attempt, tries, sleeps, rresult, rerror, apiResp>>
    /\ UNCHANGED nonR

\* kill_jobs: the loop is over, None is returned
KillReturn ==
    /\ rpc = "running"
    /\ rop = "kill_jobs"
    /\ kidx > Len(rarg)
    /\ tries' = Append(tries, "ok")
    /\ rresult' = "None"
    /\ rpc' = "returned"
    /\ UNCHANGED <<rop, rarg, attempt, kidx, sleeps, terminated, rerror, apiResp>>
    /\ UNCHANGED nonR

\* the remote call fails with err: the body is left (or, were the error caught
\* in the body, goes on), and the decorator retries or raises
RemoteError(err) ==
    /\ AtRemoteCall
    /\ tries' = Append(tries, err)
    /\ IF ~ErrorEscapes(rop)
         THEN /\ IF rop = "kill_jobs"
                   THEN kidx' = kidx + 1 /\ UNCHANGED <<rpc, rresult>>
                   ELSE rpc' = "returned" /\ rresult' = "None" /\ UNCHANGED kidx
              /\ UNCHANGED <<attempt, sleeps, rerror>>
       ELSE IF IsWrapped(rop) /\ IsThrottle(err) /\ attempt + 1 < MaxAttempts
         THEN /\ sleeps' = Append(sleeps, BackoffDelay(attempt))
              /\ attempt' = attempt + 1
              /\ kidx' = 1
              /\ UNCHANGED <<rpc, rresult, rerror>>
       ELSE /\ rpc' = "raised"
            /\ rerror' = err
            /\ UNCHANGED <<attempt, kidx, sleeps, rresult>>
    /\ UNCHANGED <<rop, rarg, terminated, apiResp>>
    /\ UNCHANGED nonR

RNext ==
    \/ SubmitOk
    \/ DescribeOk
    \/ TerminateOk
    \/ KillReturn
    \/ \E err \in {"throttle", "other"} : RemoteError(err)

-----------------------------------------------------------------------------
(* batch.get_running_jobs, page by page *)

\* the ids of the jobs with status st that the paginator has not returned yet
Matching(js, st, cursor) ==
    KeepSeq([i \in 1..Len(js) |-> i],
            [i \in 1..Len(js) |-> js[i].status = st /\ i > cursor])

\* response['jobSummaryList'] of the next page
PageItems(m) == SubSeq(m, 1, Min(PageSize, Len(m)))

\* variant: only the first page of a listing is read
MorePages_FirstOnly(m) == FALSE

\* for response in paginator.paginate(...): another page follows
MorePages(m) == Len(m) > PageSize

\* lst.append([job['jobName'], job['jobId']]) for every job of the page
AppendPage(l, js, page) == l \o [i \in 1..Len(page) |-> <<js[page[i]].name, page[i]>>]

ActiveIds(js) == {i \in 1..Len(js) : js[i].status \in Active}

GInit ==
    /\ \E n \in 0..MaxQJobs :
         qjobs \in [1..n -> [name : {CandidateJobNames[1]},
                             status : Active \cup Terminal]]
    /\ gpc = "listing"
    /\ gli = 1
    /\ gcursor = 0
    /\ glst = <<>>
    /\ gstart = ActiveIds(qjobs)
    /\ gseen = <<>>
    /\ gsteps = 0

\* get_running_jobs is not in use
GIdle ==
    /\ qjobs = <<>>
    /\ gpc = "unused"
    /\ gli = 1
    /\ gcursor = 0
    /\ glst = <<>>
    /\ gstart = {}
    /\ gseen = <<>>
    /\ gsteps = 0

\* one response of the paginator for jobStatus[gli]; a response without the
\* key 'jobSummaryList' is skipped by the code and is the empty page here
ListPage ==
    /\ gpc = "listing"
    /\ LET m == Matching(qjobs, jobStatus[gli], gcursor)
           page == PageItems(m)
       IN /\ glst' = AppendPage(glst, qjobs, page)
          /\ gseen' = gseen \o [i \in 1..Len(page) |-> qjobs[page[i]].status]
          /\ IF MorePages(m)
               THEN /\ gcursor' = page[Len(page)]
                    /\ UNCHANGED <<gli, gpc>>
             ELSE IF gli < Len(jobStatus)
               THEN /\ gli' = gli + 1
                    /\ gcursor' = 0
                    /\ UNCHANGED gpc
             ELSE /\ gpc' = "returned"
                  /\ UNCHANGED <<gli, gcursor>>
    /\ UNCHANGED <<qjobs, gstart, gsteps>>
    /\ UNCHANGED nonG

\* the service moves a job to its next status while the call is under way
QueueAdvance(j) ==
    /\ gpc = "listing"
    /\ gsteps < MaxQSteps
    /\ qjobs[j].status \in Active
    /\ \E st \in (IF qjobs[j].status = "RUNNING" THEN Terminal
                   ELSE {jobStatus[StatusIndex(qjobs[j].status) + 1]}) :
         qjobs' = [qjobs EXCEPT ![j].status = st]
    /\ gsteps' = gsteps + 1
    /\ UNCHANGED <<gpc, gli, gcursor, glst, gstart, gseen>>
    /\ UNCHANGED nonG

GNext ==
    \/ ListPage
    \/ \E j \in 1..Len(qjobs) : QueueAdvance(j)

-----------------------------------------------------------------------------
(* Operations that catch errors of their remote calls *)

\* an error: its exception class and the marker texts its message holds
Err(cls, m) == [cls |-> cls, marks |-> {m}]

Repeat(x, n) == [i \in 1..n |-> x]

EOps == {"s3_object_exist", "terminateBatch", "_kill_existing_connections",
         "_generateBatch_ec2_fargate", "create_s3_buckets", "delete_s3_bucket",
         "delete_sqs", "create_db", "delete_db", "create_table"}

\* the remote calls of an operation, in the order of its code
ECalls(op) ==
    CASE op = "s3_object_exist" -> <<"get_object">>
      [] op = "terminateBatch" ->
            <<"update_job_queue">> \o Repeat("delete_job_queue", DeleteTries)
              \o <<"update_compute_environment">>
              \o Repeat("delete_compute_environment", DeleteTries)
      [] op = "_kill_existing_connections" -> <<"show processlist">>
      [] op = "_generateBatch_ec2_fargate" ->
            <<"create_compute_environment">> \o Repeat("create_job_queue", QueueTries)
      [] op = "create_s3_buckets" -> <<"create_bucket", "put_public_access_block">>
      [] op = "delete_s3_bucket" -> <<"delete_bucket">>
      [] op = "delete_sqs" -> <<"list_queues">> \o Repeat("delete_queue", QueueUrls)
      [] op = "create_db" -> <<"select version", "create database">>
      [] op = "delete_db" -> <<"show processlist", "drop database">>
      [] op = "create_table" -> <<"create table">>

\* the errors the backend may answer a call with
EErrors(call) ==
    CASE call = "get_object" ->
            {Err("ClientError", "NoSuchKey"), Err("ClientError", "AccessDenied"),
             Err("Exception", "EndpointConnectionError")}
      [] call \in {"update_job_queue", "delete_job_queue", "update_compute_environment",
                   "delete_compute_environment"} ->
            {Err("ClientError", "Too Many Requests"), Err("ClientError", "AccessDenied")}
      [] call \in {"create_compute_environment", "create_job_queue"} ->
            {Err("ClientError", "already exists"), Err("ClientError", "AccessDenied")}
      [] call \in {"create_bucket", "put_public_access_block"} ->
            {Err("ClientError", "BucketAlreadyExists"), Err("ClientError", "AccessDenied")}
      [] call = "delete_bucket" ->
            {Err("ClientError", "NoSuchBucket"), Err("ClientError", "AccessDenied")}
      [] call = "list_queues" -> {Err("ClientError", "AccessDenied")}
      [] call = "delete_queue" ->
            {Err("ClientError", "QueueDoesNotExist"), Err("ClientError", "AccessDenied")}
      [] call = "show processlist" ->
            {Err("pymysql.Error", "Unknown thread"), Err("pymysql.Error", "AccessDenied"),
             Err("Exception", "AttributeError")}
      [] call = "select version" -> {Err("pymysql.Error", "AccessDenied")}
      [] call = "create database" ->
            {Err("pymysql.Error", "database exists"), Err("pymysql.Error", "AccessDenied")}
      [] call = "drop database" ->
            {Err("pymysql.Error", "database doesn't exist"), Err("pymysql.Error", "AccessDenied")}
      [] call = "create table" ->
            {Err("pymysql.Error", "already exists"), Err("pymysql.Error", "AccessDenied")}

\* the responses a call may succeed with
EResponses(call) == IF call = "list_queues" THEN {"QueueUrls", "no QueueUrls"} ELSE {"ok"}

\* what the code does next
ERaise == [kind |-> "raise", to |-> 0, done |-> FALSE, log |-> "", ret |-> "none"]
EGoto(i, d, msg) == [kind |-> "goto", to |-> i, done |-> d, log |-> msg, ret |-> "none"]
EReturn(v, msg) == [kind |-> "return", to |-> 0, done |-> FALSE, log |-> msg, ret |-> v]

\* "marker" in str(e)
InStr(m, e) == m \in e.marks

\* s3_object_exist: except ClientError, return False on NoSuchKey, else fall
\* off the end of the function
S3ObjectExistOnError(i, e, d) ==
    IF e.cls = "ClientError"
      THEN IF InStr("NoSuchKey", e) THEN EReturn("False", "") ELSE EReturn("None", "")
      ELSE ERaise

\* terminateBatch: update_job_queue in try/except Exception: print(e); the
\* deletions in try/except: print, sleep, pass; update_compute_environment bare
TerminateBatchOnError(i, e, d) ==
    IF i = 1 THEN EGoto(i + 1, d, "e")
    ELSE IF i <= 1 + DeleteTries THEN EGoto(i + 1, d, "Could not delete job queue")
    ELSE IF i = 2 + DeleteTries THEN ERaise
    ELSE EGoto(i + 1, d, "Could not delete compute environment")

\* _kill_existing_connections: except pymysql.Error, print unless 'Unknown thread'
KillConnectionsOnError(i, e, d) ==
    IF e.cls = "pymysql.Error"
      THEN EGoto(i + 1, d, IF InStr("Unknown thread", e) THEN "" ELSE "ERROR")
      ELSE ERaise

\* _generateBatch_ec2_fargate, from create_compute_environment on, and the
\* loop of _generateQueue
GenerateBatchOnError(i, e, d) ==
    IF i = 1
      THEN IF InStr("already exists", e)
             THEN EGoto(i + 1, d, "Compute environment already exists.")
             ELSE ERaise
      ELSE IF InStr("already exists", e)
             THEN EGoto(2 + QueueTries, TRUE, "Queue already exists. Moving on.")
             ELSE EGoto(i + 1, d, "Could not create job queue")

\* create_s3_buckets: one try around both calls
CreateBucketOnError(i, e, d) ==
    IF InStr("BucketAlreadyExists", e) THEN EGoto(3, d, "Bucket already exists.") ELSE ERaise

DeleteBucketOnError(i, e, d) ==
    IF InStr("NoSuchBucket", e) THEN EGoto(i + 1, d, "NoSuchBucket.") ELSE ERaise

\* delete_sqs: list_queues outside the try, delete_queue inside
DeleteSqsOnError(i, e, d) ==
    IF i = 1 THEN ERaise
    ELSE IF InStr("QueueDoesNotExist", e) THEN EGoto(i + 1, d, "QueueDoesNotExist.")
    ELSE ERaise

\* variant: create_db has no except clause
CreateDbOnError_Raise(i, e, d) == ERaise

\* create_db: "select version()" outside the try, "create database" inside
CreateDbOnError(i, e, d) ==
    IF i = 1 THEN ERaise
    ELSE IF InStr("database exists", e) THEN EGoto(i + 1, d, "Database already exists.")
    ELSE ERaise

\* delete_db: _kill_existing_connections first, then "drop database" in a try
DeleteDbOnError(i, e, d) ==
    IF i = 1 THEN KillConnectionsOnError(i, e, d)
    ELSE IF InStr("database doesn't exist", e) THEN EGoto(i + 1, d, "Database doesnt exist.")
    ELSE ERaise

CreateTableOnError(i, e, d) ==
    IF InStr("already exists", e) THEN EGoto(i + 1, d, "Table already exists.") ELSE ERaise

\* the except clause (or its absence) around call i of op
OnError(op, i, e, d) ==
    CASE op = "s3_object_exist" -> S3ObjectExistOnError(i, e, d)
      [] op = "terminateBatch" -> TerminateBatchOnError(i, e, d)
      [] op = "_kill_existing_connections" -> KillConnectionsOnError(i, e, d)
      [] op = "_generateBatch_ec2_fargate" -> GenerateBatchOnError(i, e, d)
      [] op = "create_s3_buckets" -> CreateBucketOnError(i, e, d)
      [] op = "delete_s3_bucket" -> DeleteBucketOnError(i, e, d)
      [] op = "delete_sqs" -> DeleteSqsOnError(i, e, d)
      [] op = "create_db" -> CreateDbOnError(i, e, d)
      [] op = "delete_db" -> DeleteDbOnError(i, e, d)
      [] op = "create_table" -> CreateTableOnError(i, e, d)

\* what follows call i when it succeeds with response resp
OnOk(op, i, resp, d) ==
    CASE op = "s3_object_exist" -> EReturn("True", "")
      [] op = "terminateBatch" ->
            IF i = 1 THEN EGoto(i + 1, d, "")
            ELSE IF i = 2 + DeleteTries THEN EGoto(i + 1, FALSE, "")
            ELSE EGoto(i + 1, TRUE, "")
      [] op = "_generateBatch_ec2_fargate" ->
            IF i = 1 THEN EGoto(i + 1, d, "") ELSE EGoto(i + 1, TRUE, "")
      [] op = "delete_sqs" ->
            IF i = 1 /\ resp = "no QueueUrls"
              THEN EReturn("None", "QueueDoesNotExist.")
              ELSE EGoto(i + 1, d, "")
      [] OTHER -> EGoto(i + 1, d, "")

\* the code after the last remote call
AtEnd(op, d) ==
    CASE op = "terminateBatch" ->
            EReturn("None", IF d THEN "Termination complete."
                            ELSE "ERROR: unable to delete the AWS Batch compute environment.")
      [] op = "_generateBatch_ec2_fargate" ->
            IF d THEN EReturn("None", "AWS Batch created.") ELSE ERaise
      [] OTHER -> EReturn("None", "")

ValueError == [cls |-> "ValueError", marks |-> {"unable to create job queue"}]

EInit ==
    /\ eop \in EOps
    /\ epc = "running"
    /\ estep = 1
    /\ edone = FALSE
    /\ eret = "none"
    /\ eraised = <<>>
    /\ elog = {}
    /\ ecaught = {}

\* none of these operations is in use
EIdle ==
    /\ eop = "none"
    /\ epc = "unused"
    /\ estep = 1
    /\ edone = FALSE
    /\ eret = "none"
    /\ eraised = <<>>
    /\ elog = {}
    /\ ecaught = {}

Logged(l, msg) == IF msg = "" THEN l ELSE l \cup {msg}

\* carry out h, the outcome of the current call; raising is the error raising
ECarryOut(h, raising) ==
    LET call == ECalls(eop)[estep]
        fin == AtEnd(eop, h.done)
    IN IF h.kind = "raise"
         THEN /\ epc' = "raised"
              /\ eraised' = << [call |-> call, err |-> raising] >>
              /\ UNCHANGED <<estep, edone, eret, elog>>
       ELSE IF h.kind = "return"
         THEN /\ epc' = "returned"
              /\ eret' = h.ret
              /\ elog' = Logged(elog, h.log)
              /\ UNCHANGED <<estep, edone, eraised>>
       ELSE IF h.to <= Len(ECalls(eop))
         THEN /\ estep' = h.to
              /\ edone' = h.done
              /\ elog' = Logged(elog, h.log)
              /\ UNCHANGED <<epc, eret, eraised>>
       ELSE IF fin.kind = "raise"
         THEN /\ epc' = "raised"
              /\ eraised' = << [call |-> "none", err |-> ValueError] >>
              /\ edone' = h.done
              /\ elog' = Logged(elog, h.log)
              /\ UNCHANGED <<estep, eret>>
       ELSE /\ epc' = "returned"
            /\ eret' = fin.ret
            /\ edone' = h.done
            /\ elog' = Logged(Logged(elog, h.log), fin.log)
            /\ UNCHANGED <<estep, eraised>>

\* the current remote call succeeds
ECallOk ==
    /\ epc = "running"
    /\ \E resp \in EResponses(ECalls(eop)[estep]) :
         ECarryOut(OnOk(eop, estep, resp, edone), ValueError)
    /\ UNCHANGED <<eop, ecaught>>
    /\ UNCHANGED nonE

\* the current remote call raises e
ECallFails(e) ==
    /\ epc = "running"
    /\ e \in EErrors(ECalls(eop)[estep])
    /\ LET h == OnError(eop, estep, e, edone)
       IN /\ ECarryOut(h, e)
          /\ ecaught' = IF h.kind = "raise" THEN ecaught
                        ELSE ecaught \cup {[call |-> ECalls(eop)[estep], err |-> e]}
    /\ UNCHANGED eop
    /\ UNCHANGED nonE

AllErrors == UNION {EErrors(c) : c \in UNION {Range(ECalls(op)) : op \in EOps}}

ENext ==
    \/ ECallOk
    \/ \E e \in AllErrors : ECallFails(e)

-----------------------------------------------------------------------------
(* watch_sqs *)

\* the responses receive_message may give: no 'Messages' key (<<>>), or up to
\* MaxBatch messages of the queue
SqsResponses(q) ==
    {<<>>} \cup {r \in UNION {[1..n -> q] : n \in 1..MaxBatch} :
                   \A i, j \in 1..Len(r) : i # j => r[i] # r[j]}

\* variant: the test of the response is left out
HasMessages_Always(resp) == TRUE

\* 'Messages' in list(response.keys())
HasMessages(resp) == resp # <<>>

\* the waittime values tried: none, the long-polling maximum, and beyond it
WaitTimes == {0, LongPollMax, LongPollMax + 5}

KInit ==
    /\ sqs = {}
    /\ kpurge \in BOOLEAN
    /\ kwait \in WaitTimes
    /\ kpc = "polling"
    /\ klst = <<>>
    /\ kresp = <<>>
    /\ kreq = -1
    /\ kpolls = 0
    /\ karrived = 0
    /\ kdeletes = <<>>
    /\ kpurges = 0

\* watch_sqs is not in use
KIdle ==
    /\ sqs = {}
    /\ kpurge = FALSE
    /\ kwait = 0
    /\ kpc = "unused"
    /\ klst = <<>>
    /\ kresp = <<>>
    /\ kreq = -1
    /\ kpolls = 0
    /\ karrived = 0
    /\ kdeletes = <<>>
    /\ kpurges = 0

\* variant: the messages are deleted one by one also when the queue is purged
DeleteCalls_Always(resp, purge) == resp

\* the delete_message calls of a pass that found resp: none after purge_queue,
\* else one per message of response['Messages'], in its order
DeleteCalls(resp, purge) == IF purge THEN <<>> ELSE resp

\* one pass of the while loop, receive_message answering resp
Receive(resp) ==
    /\ kpc = "polling"
    /\ resp \in SqsResponses(sqs)
    /\ kreq' = Min(kwait, LongPollMax)
    /\ kresp' = resp
    /\ kpolls' = Min(kpolls + 1, MaxPolls)
    /\ IF HasMessages(resp)
         THEN /\ kpc' = "returned"
              /\ IF kpurge
                   THEN sqs' = {} /\ klst' = <<>> /\ kpurges' = kpurges + 1
                   ELSE sqs' = sqs \ Range(resp) /\ klst' = resp /\ UNCHANGED kpurges
              /\ kdeletes' = kdeletes \o DeleteCalls(resp, kpurge)
         ELSE /\ kpc' = "polling"
              /\ klst' = <<>>
              /\ UNCHANGED <<sqs, kdeletes, kpurges>>
    /\ UNCHANGED <<kpurge, kwait, karrived>>
    /\ UNCHANGED nonK

\* receive_message finds nothing
ReceiveNothing ==
    /\ kpc = "polling"
    /\ Receive(<<>>)

\* receive_message finds messages
ReceiveMessages == \E resp \in SqsResponses(sqs) \ {<<>>} : Receive(resp)

\* a producer sends a message to the queue
Arrive ==
    /\ karrived < MaxMsgs
    /\ karrived' = karrived + 1
    /\ sqs' = sqs \cup {karrived + 1}
    /\ UNCHANGED <<kpurge, kwait, kpc, klst, kresp, kreq, kpolls, kdeletes, kpurges>>
    /\ UNCHANGED nonK

KNext ==
    \/ ReceiveNothing
    \/ ReceiveMessages
    \/ Arrive

-----------------------------------------------------------------------------
(* batch.__init__ *)

\* str.lower(), on the characters of the inputs
Lower(c) ==
    CASE c = "A" -> "a" [] c = "C" -> "c" [] c = "E" -> "e" [] c = "F" -> "f"
      [] c = "G" -> "g" [] c = "K" -> "k" [] c = "R" -> "r" [] c = "S" -> "s"
      [] c = "T" -> "t" [] OTHER -> c

\* variant: the option is compared as written
LowerStr_AsIs(str) == str

LowerStr(str) == [i \in 1..Len(str) |-> Lower(str[i])]

accepted_options == {<<"e","c","2">>, <<"e","k","s">>, <<"f","a","r","g","a","t","e">>}

\* the values of infrastructure_type tried
InfrastructureTypes ==
    {<<"e","c","2">>, <<"E","C","2">>, <<"E","c","2">>, <<"e","k","s">>, <<"E","K","S">>,
     <<"f","a","r","g","a","t","e">>, <<"F","a","r","g","a","t","e">>,
     <<"F","A","R","G","A","T","E">>, <<"k","8","s">>, <<>>, <<"e","c","2"," ">>,
     <<"e","c","s">>}

BInit ==
    /\ btype \in InfrastructureTypes
    /\ brole \in {"None", "", "arn:aws:iam::1:role/r"}
    /\ bregion \in {"us-east-1", "eu-west-1"}
    /\ bpc = "store"
    /\ bself = {}
    /\ bclient = FALSE
    /\ berror = "none"

\* no batch object is being constructed
BIdle ==
    /\ btype = <<>>
    /\ brole = "None"
    /\ bregion = "none"
    /\ bpc = "unused"
    /\ bself = {}
    /\ bclient = FALSE
    /\ berror = "none"

\* self.infrastructure_type = ... to self.IAM_role = IAM_role
BStore ==
    /\ bpc = "store"
    /\ bself' = {"infrastructure_type", "region", "batch_namespace", "queue_name",
                 "computeEnvironmentName", "minvCpus", "maxvCpus", "instanceTypes",
                 "IAM_role"}
    /\ bpc' = "validate"
    /\ UNCHANGED <<btype, brole, bregion, bclient, berror>>
    /\ UNCHANGED nonB

\* the two tests of the options
BValidate ==
    /\ bpc = "validate"
    /\ IF LowerStr(btype) \notin accepted_options
         THEN bpc' = "raised" /\ berror' = "ValueError"
       ELSE IF /\ (LowerStr(btype) = <<"e","c","2">>
                     \/ LowerStr(btype) = <<"f","a","r","g","a","t","e">>)
               /\ brole = "None"
         THEN bpc' = "raised" /\ berror' = "ValueError"
       ELSE bpc' = "client" /\ UNCHANGED berror
    /\ UNCHANGED <<btype, brole, bregion, bself, bclient>>
    /\ UNCHANGED nonB

\* self.batch_client = boto3.client('batch', region_name = self.region)
BCreateClient ==
    /\ bpc = "client"
    /\ bclient' = TRUE
    /\ bself' = bself \cup {"batch_client"}
    /\ bpc' = "constructed"
    /\ UNCHANGED <<btype, brole, bregion, berror>>
    /\ UNCHANGED nonB

BNext ==
    \/ BStore
    \/ BValidate
    \/ BCreateClient

-----------------------------------------------------------------------------
(* batch.removeJobDefinition *)

\* job_defs['jobDefinitions']: the first DefsPage ACTIVE revisions
DescribeDefinitions(active) ==
    LET l == ListOfSet(active) IN SubSeq(l, 1, Min(DefsPage, Len(l)))

\* variant: every error of deregister_job_definition is raised
DeregisterOnError_Raise(e) == "raise"

\* except Exception as e: sleep on "Too Many Requests", else raise e
DeregisterOnError(e) == IF InStr("Too Many Requests", e) THEN "sleep" ELSE "raise"

DeregisterErrors == {Err("ClientError", "Too Many Requests"), Err("ClientError", "AccessDenied")}

JInit ==
    /\ \E n \in 0..MaxDefs : jdefs = 1..n
    /\ jpc = "describe"
    /\ all_defs = <<>>
    /\ jidx = 1
    /\ jerror = <<>>
    /\ jsleeps = 0

\* removeJobDefinition is not in use
JIdle ==
    /\ jdefs = {}
    /\ jpc = "unused"
    /\ all_defs = <<>>
    /\ jidx = 1
    /\ jerror = <<>>
    /\ jsleeps = 0

\* the top of the while loop: describe_job_definitions, break when it is empty
Describe ==
    /\ jpc = "describe"
    /\ all_defs' = DescribeDefinitions(jdefs)
    /\ jidx' = 1
    /\ jpc' = IF Len(DescribeDefinitions(jdefs)) = 0 THEN "returned" ELSE "deregister"
    /\ UNCHANGED <<jdefs, jerror, jsleeps>>
    /\ UNCHANGED nonJ

\* the for loop goes on to the next revision, or the while loop starts again
NextDefinition == IF jidx = Len(all_defs) THEN "describe" ELSE "deregister"

\* deregister_job_definition goes through
DeregisterOk ==
    /\ jpc = "deregister"
    /\ jdefs' = jdefs \ {all_defs[jidx]}
    /\ jidx' = jidx + 1
    /\ jpc' = NextDefinition
    /\ UNCHANGED <<all_defs, jerror, jsleeps>>
    /\ UNCHANGED nonJ

\* deregister_job_definition raises e
DeregisterFails(e) ==
    /\ jpc = "deregister"
    /\ e \in DeregisterErrors
    /\ IF DeregisterOnError(e) = "sleep"
         THEN /\ jsleeps' = Min(jsleeps + 1, MaxSleeps)
              /\ jidx' = jidx + 1
              /\ jpc' = NextDefinition
              /\ UNCHANGED jerror
         ELSE /\ jpc' = "raised"
              /\ jerror' = <<e>>
              /\ UNCHANGED <<jidx, jsleeps>>
    /\ UNCHANGED <<jdefs, all_defs>>
    /\ UNCHANGED nonJ

JNext ==
    \/ Describe
    \/ DeregisterOk
    \/ \E e \in DeregisterErrors : DeregisterFails(e)

-----------------------------------------------------------------------------
(* SQLHandler.connect *)

Letters == {"a", "B"}

\* the characters of the database names that are tried
NameChars == Letters \cup {"1", "_"}

DatabaseNames == UNION {[1..n -> NameChars] : n \in 1..MaxNameLen}

\* variant: the name is used as it is
Sanitize_AsIs(string) == string

\* _sanitize: re.sub('[^a-zA-Z]+', '', string)
Sanitize(string) == SelectSeq(string, LAMBDA c : c \in Letters)

\* MySQL error numbers: unknown database, syntax error, database exists
ER_BAD_DB_ERROR == 1049
ER_PARSE_ERROR == 1064
ER_DB_CREATE_EXISTS == 1007

\* the server's answer to "use <name>" and to connect(db=<name>): 0 is success
UseDatabase(name, server) ==
    IF name = <<>> THEN ER_PARSE_ERROR
    ELSE IF name \in server THEN 0 ELSE ER_BAD_DB_ERROR

\* the server's answer to "create database <name>"
CreateDatabase(name, server) ==
    IF name = <<>> THEN ER_PARSE_ERROR
    ELSE IF name \in server THEN ER_DB_CREATE_EXISTS ELSE 0

CInit ==
    /\ database \in DatabaseNames
    /\ dbs \in SUBSET {<<"a">>, <<"a", "1">>, <<"B">>}
    /\ connection = <<>>
    /\ cpc = "connect"
    /\ exists = FALSE
    /\ checked = <<>>
    /\ created = <<>>
    /\ cerror = <<>>

\* SQLHandler.connect is not in use
CIdle ==
    /\ database = <<>>
    /\ dbs = {}
    /\ connection = <<>>
    /\ cpc = "unused"
    /\ exists = FALSE
    /\ checked = <<>>
    /\ created = <<>>
    /\ cerror = <<>>

\* self._connect(True): a connection without database
ConnectNoDb ==
    /\ cpc = "connect"
    /\ connection' = <<[nodb |-> TRUE, db |-> <<>>]>>
    /\ cpc' = "database_exist"
    /\ UNCHANGED <<database, dbs, exists, checked, created, cerror>>
    /\ UNCHANGED nonC

\* database_exist(): "use <sanitized name>"; 1049 is False, any other error
\* is raised
DatabaseExist ==
    /\ cpc = "database_exist"
    /\ checked' = Append(checked, Sanitize(database))
    /\ LET errno == UseDatabase(Sanitize(database), dbs) IN
         IF errno = 0
           THEN /\ exists' = TRUE
                /\ connection' = <<[nodb |-> TRUE, db |-> Sanitize(database)]>>
                /\ cpc' = "reconnect"
                /\ UNCHANGED cerror
         ELSE IF errno = ER_BAD_DB_ERROR
           THEN /\ exists' = FALSE
                /\ cpc' = "create_db"
                /\ UNCHANGED <<connection, cerror>>
         ELSE /\ cpc' = "raised"
              /\ cerror' = <<errno>>
              /\ UNCHANGED <<connection, exists>>
    /\ UNCHANGED <<database, dbs, created>>
    /\ UNCHANGED nonC

\* create_db(): "create database <sanitized name>"; 'database exists' is
\* printed, any other error is raised
CreateDb ==
    /\ cpc = "create_db"
    /\ created' = Append(created, Sanitize(database))
    /\ LET errno == CreateDatabase(Sanitize(database), dbs) IN
         IF errno \in {0, ER_DB_CREATE_EXISTS}
           THEN /\ dbs' = dbs \cup {Sanitize(database)}
                /\ cpc' = "reconnect"
                /\ UNCHANGED cerror
           ELSE /\ cpc' = "raised"
                /\ cerror' = <<errno>>
                /\ UNCHANGED dbs
    /\ UNCHANGED <<database, connection, exists, checked>>
    /\ UNCHANGED nonC

\* self.connection.close(); self._connect(False): pymysql.connect with
\* db=self.database
Reconnect ==
    /\ cpc = "reconnect"
    /\ LET errno == UseDatabase(database, dbs) IN
         IF errno = 0
           THEN /\ connection' = <<[nodb |-> FALSE, db |-> database]>>
                /\ cpc' = "returned"
                /\ UNCHANGED cerror
           ELSE /\ connection' = <<>>
                /\ cpc' = "raised"
                /\ cerror' = <<errno>>
    /\ UNCHANGED <<database, dbs, exists, checked, created>>
    /\ UNCHANGED nonC

CNext ==
    \/ ConnectNoDb
    \/ DatabaseExist
    \/ CreateDb
    \/ Reconnect

-----------------------------------------------------------------------------
(* evaluate_data *)

\* the arguments that are tried: 1-D arrays, 2-D arrays and lists of rows
Inputs ==
    {[ndarray |-> TRUE, shape |-> <<k>>] : k \in 0..MaxCols}
      \cup {[ndarray |-> b, shape |-> <<n, MaxCols>>] : b \in BOOLEAN, n \in 0..MaxRows}

\* len(X) after "if isinstance(X, np.ndarray): if len(X.shape) == 1: X = [X]"
Rows(x) == IF x.ndarray /\ Len(x.shape) = 1 THEN 1 ELSE x.shape[1]

\* config['jobDefinitionName'] + '-' + str(i)
JobName(i) == <<"jobDefinitionName", "-", i>>

\* variant: the wait is always for the last response only
ListsQueue_Never(n) == FALSE

\* if len(X) > 1: the ids come from get_running_jobs()
ListsQueue(n) == n > 1

VInit ==
    /\ X \in Inputs
    /\ \E n \in 0..MaxForeign :
         vqueue \in [1..n -> [jobName : {<<"other">>}, status : Active \cup Terminal,
                              mine : {FALSE}]]
    /\ vpc = "submit"
    /\ vi = 0
    /\ response = <<>>
    /\ vli = 1
    /\ vlst = <<>>
    /\ running_ids = <<>>
    /\ vrunning = <<>>
    /\ vadvance = 0

\* evaluate_data is not in use
VIdle ==
    /\ X = [ndarray |-> FALSE, shape |-> <<0, 0>>]
    /\ vqueue = <<>>
    /\ vpc = "unused"
    /\ vi = 0
    /\ response = <<>>
    /\ vli = 1
    /\ vlst = <<>>
    /\ running_ids = <<>>
    /\ vrunning = <<>>
    /\ vadvance = 0

\* one pass of "for i, x in enumerate(X)": sendBatchJob
SendBatchJob ==
    /\ vpc = "submit"
    /\ vi < Rows(X)
    /\ vqueue' = Append(vqueue, [jobName |-> JobName(vi), status |-> "SUBMITTED",
                                 mine |-> TRUE])
    /\ response' = <<Len(vqueue) + 1>>
    /\ vi' = vi + 1
    /\ UNCHANGED <<X, vpc, vli, vlst, running_ids, vrunning, vadvance>>
    /\ UNCHANGED nonV

\* after the loop: the ids to wait for; response is unbound when X had no row
ChooseIds ==
    /\ vpc = "submit"
    /\ vi = Rows(X)
    /\ IF ListsQueue(Rows(X))
         THEN /\ vpc' = "list"
              /\ UNCHANGED <<running_ids, vrunning>>
       ELSE IF response = <<>>
         THEN /\ vpc' = "raised"
              /\ UNCHANGED <<running_ids, vrunning>>
       ELSE /\ running_ids' = response
            /\ vrunning' = ListOfSet(Range(response))
            /\ vpc' = "wait"
    /\ UNCHANGED <<X, vqueue, vi, response, vli, vlst, vadvance>>
    /\ UNCHANGED nonV

\* get_running_jobs: the jobs of one status; after the last status
\* running_ids = [x[1] for x in running_jobs] and wait_for_jobs_finish starts
\* with list(set(all_jobs))
ListRunning ==
    /\ vpc = "list"
    /\ LET found == SelectSeq([i \in 1..Len(vqueue) |-> i],
                              LAMBDA i : vqueue[i].status = jobStatus[vli])
       IN /\ vlst' = vlst \o found
          /\ IF vli < Len(jobStatus)
               THEN /\ vli' = vli + 1
                    /\ UNCHANGED <<vpc, running_ids, vrunning>>
               ELSE /\ running_ids' = vlst \o found
                    /\ vrunning' = ListOfSet(Range(vlst \o found))
                    /\ vpc' = "wait"
                    /\ UNCHANGED vli
    /\ UNCHANGED <<X, vqueue, vi, response, vadvance>>
    /\ UNCHANGED nonV

\* describe_jobs(jobs=running_jobs[:100])['jobs']
DescribeQueue(ids) == [i \in 1..Len(ids) |-> [jobId |-> ids[i], status |-> vqueue[ids[i]].status]]

\* wait_for_jobs_finish: one pass of its loop, or its return
WaitRound ==
    /\ vpc = "wait"
    /\ IF WhileCond(vrunning, 0)
         THEN /\ vrunning' = RemoveAllDone(vrunning, DoneLst(DescribeQueue(FirstBatch(vrunning))))
              /\ UNCHANGED vpc
         ELSE /\ vpc' = "returned"
              /\ UNCHANGED vrunning
    /\ UNCHANGED <<X, vqueue, vi, response, vli, vlst, running_ids, vadvance>>
    /\ UNCHANGED nonV

\* the statuses a job can be found in after the status st
LaterStatuses(st) ==
    {jobStatus[k] : k \in (StatusIndex(st) + 1)..Len(jobStatus)} \cup Terminal

\* the service moves a job on, by one status or more, between two calls
JobAdvance(j) ==
    /\ vpc \in {"submit", "list", "wait"}
    /\ vadvance < MaxAdvance
    /\ vqueue[j].status \in Active
    /\ \E st \in LaterStatuses(vqueue[j].status) :
         vqueue' = [vqueue EXCEPT ![j].status = st]
    /\ vadvance' = vadvance + 1
    /\ UNCHANGED <<X, vpc, vi, response, vli, vlst, running_ids, vrunning>>
    /\ UNCHANGED nonV

VNext ==
    \/ SendBatchJob
    \/ ChooseIds
    \/ ListRunning
    \/ WaitRound
    \/ \E j \in 1..Len(vqueue) : JobAdvance(j)

-----------------------------------------------------------------------------
(* create_s3_buckets *)

BlockFlags == {"BlockPublicPolicy", "IgnorePublicAcls", "BlockPublicAcls", "RestrictPublicBuckets"}

\* the PublicAccessBlockConfiguration of the call: all four flags True
FullBlock == [f \in BlockFlags |-> TRUE]

\* the configurations a bucket can have before the call
BlockConfigs == [BlockFlags -> BOOLEAN]

\* create_bucket(Bucket=name), without region: the error S3 answers with, or
\* <<>> when the bucket is created (a bucket of the caller is reported as
\* owned, or accepted again, depending on the region of the endpoint)
CreateBucketErrors(b) ==
    IF b = <<>> THEN {<<>>, <<Err("ClientError", "AccessDenied")>>}
    ELSE IF b[1].owner = "caller"
      THEN {<<>>, <<Err("ClientError", "BucketAlreadyOwnedByYou")>>}
    ELSE {<<Err("ClientError", "BucketAlreadyExists")>>}

\* put_public_access_block on the bucket
PutBlockErrors(b) ==
    IF b # <<>> /\ b[1].owner = "caller"
      THEN {<<>>, <<Err("ClientError", "AccessDenied")>>}
      ELSE {<<Err("ClientError", "AccessDenied")>>}

\* variant: the except clause raises every error
BucketErrorIsPrinted_Never(e) == FALSE

\* except Exception as e: if "BucketAlreadyExists" in str(e): print, else raise e
BucketErrorIsPrinted(e) == InStr("BucketAlreadyExists", e)

Regions == {"us-east-1", "eu-west-1"}

UInit ==
    /\ uregion \in Regions
    /\ bucket \in {<<>>} \cup {<<[owner |-> o, block |-> c]>> :
                                 o \in {"caller", "other"}, c \in BlockConfigs}
    /\ upc = "create_bucket"
    /\ ucalls = <<>>
    /\ uerror = <<>>
    /\ ulog = <<>>

\* create_s3_buckets is not in use
UIdle ==
    /\ uregion = "us-east-1"
    /\ bucket = <<>>
    /\ upc = "unused"
    /\ ucalls = <<>>
    /\ uerror = <<>>
    /\ ulog = <<>>

\* the except clause, for the error e of either call
BucketExcept(e) ==
    IF BucketErrorIsPrinted(e)
      THEN /\ ulog' = Append(ulog, "Bucket already exists.")
           /\ upc' = "returned"
           /\ UNCHANGED uerror
      ELSE /\ uerror' = <<e>>
           /\ upc' = "raised"
           /\ UNCHANGED ulog

\* client.create_bucket(Bucket=s3_bucket_name)
CreateBucket ==
    /\ upc = "create_bucket"
    /\ \E r \in CreateBucketErrors(bucket) :
         IF r = <<>>
           THEN /\ bucket' = IF bucket = <<>>
                               THEN <<[owner |-> "caller", block |-> [f \in BlockFlags |-> FALSE]]>>
                               ELSE bucket
                /\ ucalls' = Append(ucalls, "create_bucket")
                /\ upc' = "put_public_access_block"
                /\ UNCHANGED <<uerror, ulog>>
           ELSE /\ BucketExcept(r[1])
                /\ UNCHANGED <<bucket, ucalls>>
    /\ UNCHANGED uregion
    /\ UNCHANGED nonU

\* client.put_public_access_block(Bucket=..., PublicAccessBlockConfiguration=...)
PutPublicAccessBlock ==
    /\ upc = "put_public_access_block"
    /\ \E r \in PutBlockErrors(bucket) :
         IF r = <<>>
           THEN /\ bucket' = <<[bucket[1] EXCEPT !.block = FullBlock]>>
                /\ ucalls' = Append(ucalls, "put_public_access_block")
                /\ upc' = "returned"
                /\ UNCHANGED <<uerror, ulog>>
           ELSE /\ BucketExcept(r[1])
                /\ UNCHANGED <<bucket, ucalls>>
    /\ UNCHANGED uregion
    /\ UNCHANGED nonU

UNext ==
    \/ CreateBucket
    \/ PutPublicAccessBlock

-----------------------------------------------------------------------------
(* timestream.delete_table *)

TableNames == {"t1", "t2", "t3"}

\* the arguments tried: None (<<>>) and every table name
TableArgs == {<<>>} \cup {<<t>> : t \in TableNames}

\* variant: the table named in the call is deleted
TablesToDelete_Named(table, own) == IF table = <<>> THEN {own} ELSE {table[1]}

\* the tables delete_table(table) hands to wr.timestream.delete_table:
\* "if table is None:" has no else branch
TablesToDelete(table, own) == IF table = <<>> THEN {own} ELSE {}

TInit ==
    /\ tdatabase \in BOOLEAN
    /\ ttables \in SUBSET TableNames
    /\ ~tdatabase => ttables = {}
    /\ selftable \in TableNames
    /\ tpc = "database"
    /\ targ = <<>>
    /\ tdeletes = 0
    /\ terror = <<>>

\* no timestream object is in use
TIdle ==
    /\ tdatabase = FALSE
    /\ ttables = {}
    /\ selftable = "t1"
    /\ tpc = "unused"
    /\ targ = <<>>
    /\ tdeletes = 0
    /\ terror = <<>>

\* __init__: if not self._database_exist(): create_database
EnsureDatabase ==
    /\ tpc = "database"
    /\ tdatabase' = TRUE
    /\ tpc' = "table"
    /\ UNCHANGED <<ttables, selftable, targ, tdeletes, terror>>
    /\ UNCHANGED nonT

\* __init__: if not self._table_exist(): create_table
EnsureTable ==
    /\ tpc = "table"
    /\ ttables' = ttables \cup {selftable}
    /\ tpc' = "ready"
    /\ UNCHANGED <<tdatabase, selftable, targ, tdeletes, terror>>
    /\ UNCHANGED nonT

\* delete_table(table); deleting a table that is not there is an error of
\* the service
DeleteTable(table) ==
    /\ tpc = "ready"
    /\ tdeletes < MaxDeletes
    /\ table \in TableArgs
    /\ targ' = table
    /\ IF TablesToDelete(table, selftable) \subseteq ttables
         THEN /\ ttables' = ttables \ TablesToDelete(table, selftable)
              /\ tdeletes' = tdeletes + 1
              /\ UNCHANGED <<tpc, terror>>
         ELSE /\ tpc' = "raised"
              /\ terror' = <<Err("ClientError", "ResourceNotFoundException")>>
              /\ UNCHANGED <<ttables, tdeletes>>
    /\ UNCHANGED <<tdatabase, selftable>>
    /\ UNCHANGED nonT

TNext ==
    \/ EnsureDatabase
    \/ EnsureTable
    \/ \E table \in TableArgs : DeleteTable(table)

-----------------------------------------------------------------------------
(* containerize *)

RepoNames == UNION {[1..n -> {"a", "b"}] : n \in 1..MaxRepoLen}

\* repo_info.keys(): the names of files_to_process, each once, in the order
\* of their first entry
RepoKeys(files) ==
    KeepSeq(files, [i \in 1..Len(files) |-> Occurrences(files, files[i], i) = 1])

\* _repo_exist: any(repo in meta['repositoryName'] for meta in repositories)
RepoExist(repo, names) == \E meta \in names : Contains(meta, repo)

HInit ==
    /\ repositories \in SUBSET RepoNames
    /\ files_to_process \in UNION {[1..n -> RepoNames] : n \in 1..MaxFiles}
    /\ hpc = "exist"
    /\ existance = <<>>
    /\ hidx = 1
    /\ built = {}

\* containerize is not in use
HIdle ==
    /\ repositories = {}
    /\ files_to_process = <<>>
    /\ hpc = "unused"
    /\ existance = <<>>
    /\ hidx = 1
    /\ built = {}

\* existance = {repo: _repo_exist(repo) for repo in repo_info.keys()}, one key
CheckRepo ==
    /\ hpc = "exist"
    /\ existance' = Append(existance, RepoExist(RepoKeys(files_to_process)[hidx], repositories))
    /\ IF hidx = Len(RepoKeys(files_to_process))
         THEN hpc' = "create" /\ hidx' = 1
         ELSE hpc' = hpc /\ hidx' = hidx + 1
    /\ UNCHANGED <<repositories, files_to_process, built>>
    /\ UNCHANGED nonH

\* for repo, exist in existance.items(): if not exist: _create_repo(repo)
CreateRepo ==
    /\ hpc = "create"
    /\ repositories' = IF existance[hidx] THEN repositories
                       ELSE repositories \cup {RepoKeys(files_to_process)[hidx]}
    /\ IF hidx = Len(RepoKeys(files_to_process))
         THEN hpc' = "build" /\ hidx' = 1
         ELSE hpc' = hpc /\ hidx' = hidx + 1
    /\ UNCHANGED <<files_to_process, existance, built>>
    /\ UNCHANGED nonH

\* Parallel(...)(delayed(_build_and_push)(...) for tagname in repo_info.keys()):
\* the build-and-push of one tagname starts
BuildAndPush(tagname) ==
    /\ hpc = "build"
    /\ tagname \in Range(RepoKeys(files_to_process)) \ built
    /\ built' = built \cup {tagname}
    /\ UNCHANGED <<repositories, files_to_process, hpc, existance, hidx>>
    /\ UNCHANGED nonH

HNext ==
    \/ CheckRepo
    \/ CreateRepo
    \/ \E tagname \in RepoNames : BuildAndPush(tagname)

-----------------------------------------------------------------------------
(* send_asset_property_data *)

\* the lengths tried: around one entry, around one call, and beyond
PointCounts == {0, 1, ValuesPerEntry - 1, ValuesPerEntry, ValuesPerEntry + 1,
                ValuesPerEntry * EntriesPerCall, ValuesPerEntry * EntriesPerCall + 1,
                MaxPoints}

\* the time the shifted series ends at (use_time, or the clock)
Now == 1000

\* variant: a last chunk that is not full is dropped
NChunks_Floor(n) == n \div ValuesPerEntry

\* n_chunks = int(np.ceil(data.shape[0]/10))
NChunks(n) == (n + ValuesPerEntry - 1) \div ValuesPerEntry

\* propertyValues of chunk c (from 0): the points c*10+i, i in range(10), that exist
PropertyValues(d, t, c) ==
    LET idx == KeepSeq([i \in 1..ValuesPerEntry |-> c * ValuesPerEntry + i],
                       [i \in 1..ValuesPerEntry |-> ~(c * ValuesPerEntry + (i - 1) >= Len(d))])
    IN [k \in 1..Len(idx) |-> [doubleValue |-> d[idx[k]], timeInSeconds |-> t[idx[k]]]]

\* insertion_data[i:i+10], i counted from 0
CallEntries(entries, i) == SubSeq(entries, i + 1, Min(i + EntriesPerCall, Len(entries)))

\* what batch_put_asset_property_value can answer
PutResponses == {"no errorEntries", "errorEntries empty", "ThrottlingException",
                 "InternalFailureException"}

\* 'errorEntries' in response.keys() and len(response['errorEntries']) > 0
HasErrorEntries(resp) == resp \in {"ThrottlingException", "InternalFailureException"}

IInit ==
    /\ \E n \in PointCounts, t0 \in {0, 50} :
         /\ data = [i \in 1..n |-> (i * 7) % 5]
         /\ data_time = [i \in 1..n |-> t0 + 2 * i]
    /\ ensure_time_contrain \in BOOLEAN
    /\ ipc = "shift"
    /\ chnk = 0
    /\ insertion_data = <<>>
    /\ ipos = 0
    /\ icalls = <<>>
    /\ iresp = "none"
    /\ ierror = <<>>

\* send_asset_property_data is not in use
IIdle ==
    /\ data = <<>>
    /\ data_time = <<>>
    /\ ensure_time_contrain = FALSE
    /\ ipc = "unused"
    /\ chnk = 0
    /\ insertion_data = <<>>
    /\ ipos = 0
    /\ icalls = <<>>
    /\ iresp = "none"
    /\ ierror = <<>>

\* if ensure_time_contrain: shift = now - data_time[-1]; data_time += shift
ShiftTime ==
    /\ ipc = "shift"
    /\ IF ~ensure_time_contrain
         THEN /\ ipc' = "build"
              /\ UNCHANGED <<data_time, ierror>>
       ELSE IF data_time = <<>>
         THEN /\ ipc' = "raised"
              /\ ierror' = <<"IndexError">>
              /\ UNCHANGED data_time
       ELSE /\ data_time' = [i \in 1..Len(data_time) |->
                               data_time[i] + (Now - data_time[Len(data_time)])]
            /\ ipc' = "build"
            /\ UNCHANGED ierror
    /\ UNCHANGED <<data, ensure_time_contrain, chnk, insertion_data, ipos, icalls, iresp>>
    /\ UNCHANGED nonI

\* one pass of "for chnk in range(n_chunks)", or the end of that loop
BuildEntry ==
    /\ ipc = "build"
    /\ IF chnk < NChunks(Len(data))
         THEN /\ insertion_data' = Append(insertion_data,
                    [entryId |-> chnk, propertyValues |-> PropertyValues(data, data_time, chnk)])
              /\ chnk' = chnk + 1
              /\ UNCHANGED ipc
         ELSE /\ ipc' = "push"
              /\ UNCHANGED <<insertion_data, chnk>>
    /\ UNCHANGED <<data, data_time, ensure_time_contrain, ipos, icalls, iresp, ierror>>
    /\ UNCHANGED nonI

\* one pass of the push loop, batch_put_asset_property_value answering resp
PutValues(resp) ==
    /\ ipc = "push"
    /\ ipos < Len(insertion_data)
    /\ resp \in PutResponses
    /\ icalls' = Append(icalls, CallEntries(insertion_data, ipos))
    /\ iresp' = resp
    /\ ipos' = ipos + EntriesPerCall
    /\ IF HasErrorEntries(resp)
         THEN ipc' = "raised" /\ ierror' = <<"ValueError">>
         ELSE UNCHANGED <<ipc, ierror>>
    /\ UNCHANGED <<data, data_time, ensure_time_contrain, chnk, insertion_data>>
    /\ UNCHANGED nonI

\* the push loop is over
PutDone ==
    /\ ipc = "push"
    /\ ipos >= Len(insertion_data)
    /\ ipc' = "returned"
    /\ UNCHANGED <<data, data_time, ensure_time_contrain, chnk, insertion_data, ipos,
                   icalls, iresp, ierror>>
    /\ UNCHANGED nonI

INext ==
    \/ ShiftTime
    \/ BuildEntry
    \/ \E resp \in PutResponses : PutValues(resp)
    \/ PutDone

-----------------------------------------------------------------------------
(* autoscale_sensors, two invocations at the same time *)

Invocations == {1, 2}

ZKeys == 1..MaxKeys

\* running_id: the keys of the non-terminal virtual-sensor jobs, one per job
ListedKeys(q) == ListOfSet({k \in ZKeys : q[k] > 0})

\* newjobs: [newjobs[i] for i, x in enumerate(idnum) if x not in running_id]
NewKeys(idn, rid) == KeepSeq(idn, [i \in 1..Len(idn) |-> idn[i] \notin Range(rid)])

ZInit ==
    /\ zqueue \in [ZKeys -> 0..1]
    /\ zinventory \in SUBSET ZKeys
    /\ zpc = [p \in Invocations |-> "list"]
    /\ zrunning_id = [p \in Invocations |-> <<>>]
    /\ zidnum = [p \in Invocations |-> <<>>]
    /\ zsubmitted = [p \in Invocations |-> {}]
    /\ zoverlap = FALSE

\* no concurrent invocations
ZIdle ==
    /\ zqueue = [k \in ZKeys |-> 0]
    /\ zinventory = {}
    /\ zpc = [p \in Invocations |-> "unused"]
    /\ zrunning_id = [p \in Invocations |-> <<>>]
    /\ zidnum = [p \in Invocations |-> <<>>]
    /\ zsubmitted = [p \in Invocations |-> {}]
    /\ zoverlap = FALSE

\* running_jobs = twin_batch.get_running_jobs(), filtered and parsed
ZList(p) ==
    /\ zpc[p] = "list"
    /\ zrunning_id' = [zrunning_id EXCEPT ![p] = ListedKeys(zqueue)]
    /\ zpc' = [zpc EXCEPT ![p] = "s3"]
    /\ zoverlap' = (zoverlap \/ \E o \in Invocations \ {p} : zpc[o] \in {"s3", "kill", "submit"})
    /\ UNCHANGED <<zqueue, zinventory, zidnum, zsubmitted>>
    /\ UNCHANGED nonZ

\* incoming_sensor_data = s3_all_contents(...), parsed into idnum
ZReadInventory(p) ==
    /\ zpc[p] = "s3"
    /\ zidnum' = [zidnum EXCEPT ![p] = ListOfSet(zinventory)]
    /\ zpc' = [zpc EXCEPT ![p] = "kill"]
    /\ UNCHANGED <<zqueue, zinventory, zrunning_id, zsubmitted, zoverlap>>
    /\ UNCHANGED nonZ

\* kill_jobs(deadjobs): the jobs of the keys that are tracked and not expected
ZKill(p) ==
    /\ zpc[p] = "kill"
    /\ zqueue' = [k \in ZKeys |->
                    IF k \in Range(DeadKeys(zrunning_id[p], zidnum[p])) THEN 0 ELSE zqueue[k]]
    /\ zpc' = [zpc EXCEPT ![p] = "submit"]
    /\ UNCHANGED <<zinventory, zrunning_id, zidnum, zsubmitted, zoverlap>>
    /\ UNCHANGED nonZ

\* Parallel(...)(delayed(job_spin)(job_i) for job_i in newjobs)
ZSubmit(p) ==
    /\ zpc[p] = "submit"
    /\ LET new == NewKeys(zidnum[p], zrunning_id[p])
       IN /\ zqueue' = [k \in ZKeys |-> zqueue[k] + Occurrences(new, k, Len(new))]
          /\ zsubmitted' = [zsubmitted EXCEPT ![p] = Range(new)]
    /\ zpc' = [zpc EXCEPT ![p] = "done"]
    /\ UNCHANGED <<zinventory, zrunning_id, zidnum, zoverlap>>
    /\ UNCHANGED nonZ

ZNext ==
    \/ \E p \in Invocations : ZList(p)
    \/ \E p \in Invocations : ZReadInventory(p)
    \/ \E p \in Invocations : ZKill(p)
    \/ \E p \in Invocations : ZSubmit(p)

-----------------------------------------------------------------------------
(* Specifications *)

\* autoscale_sensors, invoked MaxRuns times, and the Batch service
InitDiffer == DInit /\ PIdle /\ RIdle /\ GIdle /\ EIdle /\ KIdle /\ BIdle /\ JIdle /\ CIdle /\ VIdle /\ UIdle /\ TIdle /\ HIdle /\ IIdle /\ ZIdle

SpecDiffer == InitDiffer /\ [][DNext]_vars

\* wait_for_jobs_finish and the Batch service
InitPoller == PInit /\ DIdle /\ RIdle /\ GIdle /\ EIdle /\ KIdle /\ BIdle /\ JIdle /\ CIdle /\ VIdle /\ UIdle /\ TIdle /\ HIdle /\ IIdle /\ ZIdle

PNext ==
    \/ PollRound
    \/ PollRaise
    \/ WReturn
    \/ \E h \in DOMAIN handleStatus : HandleFinish(h)

SpecPoller == InitPoller /\ [][PNext]_vars

\* the same, with status queries that succeed and an interpreter that keeps
\* running the loop
PNextLive ==
    \/ PollRound
    \/ WReturn
    \/ \E h \in DOMAIN handleStatus : HandleFinish(h)

\* WF_vars(PollRound) with ENABLED <<PollRound>>_vars written out: a round
\* always changes cnt, so it is enabled exactly when the loop condition holds
PollRoundFair ==
    \/ []<>(~(wpc = "polling" /\ WhileCond(w_running_jobs, cnt)))
    \/ []<><<PollRound>>_vars

SpecPollerLive ==
    /\ InitPoller
    /\ [][PNextLive]_vars
    /\ PollRoundFair /\ WF_vars(WReturn)

\* one call of a wrapped method and the answers of the service
InitRetry == RInit /\ DIdle /\ PIdle /\ GIdle /\ EIdle /\ KIdle /\ BIdle /\ JIdle /\ CIdle /\ VIdle /\ UIdle /\ TIdle /\ HIdle /\ IIdle /\ ZIdle

SpecRetry == InitRetry /\ [][RNext]_vars

\* one call of get_running_jobs while the service moves jobs forward
InitLister == GInit /\ DIdle /\ PIdle /\ RIdle /\ EIdle /\ KIdle /\ BIdle /\ JIdle /\ CIdle /\ VIdle /\ UIdle /\ TIdle /\ HIdle /\ IIdle /\ ZIdle

SpecLister == InitLister /\ [][GNext]_vars

\* one call of an operation that catches errors
InitErrors == EInit /\ DIdle /\ PIdle /\ RIdle /\ GIdle /\ KIdle /\ BIdle /\ JIdle /\ CIdle /\ VIdle /\ UIdle /\ TIdle /\ HIdle /\ IIdle /\ ZIdle

SpecErrors == InitErrors /\ [][ENext]_vars

\* one call of watch_sqs; a message that stays in the queue is received in
\* the end
InitSqs == KInit /\ DIdle /\ PIdle /\ RIdle /\ GIdle /\ EIdle /\ BIdle /\ JIdle /\ CIdle /\ VIdle /\ UIdle /\ TIdle /\ HIdle /\ IIdle /\ ZIdle

SpecSqs == InitSqs /\ [][KNext]_vars /\ WF_vars(ReceiveMessages)

\* one construction of a batch object
InitBatch == BInit /\ DIdle /\ PIdle /\ RIdle /\ GIdle /\ EIdle /\ KIdle /\ JIdle /\ CIdle /\ VIdle /\ UIdle /\ TIdle /\ HIdle /\ IIdle /\ ZIdle

SpecBatch == InitBatch /\ [][BNext]_vars

\* one call of removeJobDefinition; a deregistration that is tried again and
\* again goes through in the end
InitRemoveDef == JInit /\ DIdle /\ PIdle /\ RIdle /\ GIdle /\ EIdle /\ KIdle /\ BIdle /\ CIdle /\ VIdle /\ UIdle /\ TIdle /\ HIdle /\ IIdle /\ ZIdle

SpecRemoveDef ==
    InitRemoveDef /\ [][JNext]_vars /\ WF_vars(Describe) /\ SF_vars(DeregisterOk)

\* one call of SQLHandler.connect, for every name and every server content
InitConnect == CInit /\ DIdle /\ PIdle /\ RIdle /\ GIdle /\ EIdle /\ KIdle /\ BIdle /\ JIdle /\ VIdle /\ UIdle /\ TIdle /\ HIdle /\ IIdle /\ ZIdle

SpecConnect == InitConnect /\ [][CNext]_vars

\* one call of evaluate_data on a queue whose jobs move on meanwhile
InitEvaluate == VInit /\ DIdle /\ PIdle /\ RIdle /\ GIdle /\ EIdle /\ KIdle /\ BIdle /\ JIdle /\ CIdle /\ UIdle /\ TIdle /\ HIdle /\ IIdle /\ ZIdle

SpecEvaluate == InitEvaluate /\ [][VNext]_vars

\* one call of create_s3_buckets, for every bucket that can be there before
InitBucket == UInit /\ DIdle /\ PIdle /\ RIdle /\ GIdle /\ EIdle /\ KIdle /\ BIdle /\ JIdle /\ CIdle /\ VIdle /\ TIdle /\ HIdle /\ IIdle /\ ZIdle

SpecBucket == InitBucket /\ [][UNext]_vars

\* a timestream object is made, then delete_table is called on it
InitTimestream == TInit /\ DIdle /\ PIdle /\ RIdle /\ GIdle /\ EIdle /\ KIdle /\ BIdle /\ JIdle /\ CIdle /\ VIdle /\ UIdle /\ HIdle /\ IIdle /\ ZIdle

SpecTimestream == InitTimestream /\ [][TNext]_vars

\* one call of containerize, for every content of the registry
InitContainerize == HInit /\ DIdle /\ PIdle /\ RIdle /\ GIdle /\ EIdle /\ KIdle /\ BIdle /\ JIdle /\ CIdle /\ VIdle /\ UIdle /\ TIdle /\ IIdle /\ ZIdle

SpecContainerize == InitContainerize /\ [][HNext]_vars

\* one call of send_asset_property_data
InitSitewise == IInit /\ DIdle /\ PIdle /\ RIdle /\ GIdle /\ EIdle /\ KIdle /\ BIdle /\ JIdle /\ CIdle /\ VIdle /\ UIdle /\ TIdle /\ HIdle /\ ZIdle

SpecSitewise == InitSitewise /\ [][INext]_vars

\* two invocations of autoscale_sensors whose steps interleave freely
InitConcurrent == ZInit /\ DIdle /\ PIdle /\ RIdle /\ GIdle /\ EIdle /\ KIdle /\ BIdle /\ JIdle /\ CIdle /\ VIdle /\ UIdle /\ TIdle /\ HIdle /\ IIdle

SpecConcurrent == InitConcurrent /\ [][ZNext]_vars

-----------------------------------------------------------------------------
(* Reconciliation: what one invocation kills and submits *)

\* T: the keys of the running virtual-sensor jobs the invocation saw
TrackedKeys == {JobKey(running_jobs[i][1]) : i \in 1..Len(running_jobs)}

\* E: the keys of the inventory objects
ExpectedKeys == {ObjKey(k) : k \in Range(IncomingSensorData(s3))}

\* the job ids handed to kill_jobs in this invocation
KilledIds == IF killCalled THEN Range(deadjobs) ELSE {}

\* the invocation got past the parsing of both name lists
Reconciled == apc \in {"kill", "submit", "done"}

ExampleTracked ==
    << <<VirtualSensor \o <<"-","1">>, 1>>, <<VirtualSensor \o <<"-","3">>, 2>> >>

\* C1: once kill_jobs has been called (or skipped), the ids passed to it are
\* exactly the ids of the running virtual-sensor jobs whose key is in T - E;
\* once the submissions are made, the objects submitted are exactly those whose
\* key is in E - T, one job each, named after the object's key; a job or an
\* object whose key is in both T and E is neither killed nor submitted.  In the
\* example (jobs virtual-sensor-1 and -3, keys 1 and 2) only the second job is
\* killed and only the object of key 2 is submitted.
C1_SetDifference ==
    /\ apc \in {"submit", "done"} =>
         /\ KilledIds = {running_jobs[i][2] : i \in
                           {n \in 1..Len(running_jobs) :
                              JobKey(running_jobs[n][1]) \in TrackedKeys \ ExpectedKeys}}
         /\ \A i \in 1..Len(running_jobs) :
              JobKey(running_jobs[i][1]) \in ExpectedKeys
                 => ~jobs[running_jobs[i][2]].killReq
    /\ apc = "done" =>
         /\ Len(submitted) = Cardinality({k \in Range(IncomingSensorData(s3)) :
                                ObjKey(k) \in ExpectedKeys \ TrackedKeys})
         /\ {jobs[submitted[i]].name : i \in 1..Len(submitted)}
               = {JobNamePrefix \o ObjKeyText(k) : k \in
                    {o \in Range(IncomingSensorData(s3)) :
                       ObjKey(o) \in ExpectedKeys \ TrackedKeys}}
         /\ \A i \in 1..Len(newjobs) :
              ObjKey(newjobs[i]) \notin TrackedKeys \cap ExpectedKeys
    /\ (apc = "done" /\ running_jobs = ExampleTracked /\ idnum = <<1, 2>>) =>
         /\ deadjobs = <<2>>
         /\ newjobs = << <<"t","_","2",".","c","s","v">> >>

\* the example of C1 has run to its end
C1_Witness ==
    /\ apc = "done"
    /\ running_jobs = ExampleTracked
    /\ idnum = <<1, 2>>
    /\ KilledIds = {2}
    /\ Len(submitted) = 1

\* C2: an invocation that follows another one, with the inventory unchanged,
\* every job killed so far already gone from the active listing and no job
\* having ended on its own, kills nothing and submits nothing.
C2_Idempotent ==
    (run >= 2 /\ apc = "done" /\ ~ownExit /\ ~killLag)
        => (KilledIds = {} /\ newjobs = <<>>)

\* the names the invocation has to parse all hold an integer key
WellFormedNames ==
    /\ \A i \in 1..Len(lst) :
         Contains(lst[i][1], VirtualSensor) => IsInt(SplitLast(lst[i][1], "-"))
    /\ \A k \in Range(IncomingSensorData(s3)) :
         IsInt(SplitFirst(SplitLast(k, "_"), "."))

\* the invocation is over
InvocationOver == apc \in {"done", "raised"}

\* the virtual-sensor jobs get_running_jobs returned to this invocation
TrackedIds == {lst[i][2] : i \in {n \in 1..Len(lst) : Contains(lst[n][1], VirtualSensor)}}

\* C12: an invocation over well-formed names that found no virtual-sensor
\* job kills nothing and submits one job per inventory object; an invocation
\* that found an empty inventory ends normally, has killed every
\* virtual-sensor job it found and submits nothing.
C12_EdgeCases ==
    (InvocationOver /\ WellFormedNames) =>
        /\ TrackedIds = {} =>
             /\ KilledIds = {}
             /\ Len(submitted) = Len(IncomingSensorData(s3))
        /\ IncomingSensorData(s3) = <<>> =>
             /\ apc = "done"
             /\ KilledIds = TrackedIds
             /\ \A j \in TrackedIds : jobs[j].killReq
             /\ submitted = <<>>

\* C13: an invocation that met a virtual-sensor job name or an inventory
\* object name whose key is not an integer has raised, and has neither called
\* kill_jobs nor submitted a job; the step that raises changes no job.
C13_MalformedIsFatal ==
    /\ (apc \in {"kill", "submit", "done", "raised"} /\ ~WellFormedNames) =>
         /\ apc = "raised"
         /\ ~killCalled
         /\ submitted = <<>>
    /\ apc = "raised" => ~killCalled /\ submitted = <<>>

\* a job waits to be killed and an object waits to be submitted, but an
\* object name does not parse: the invocation raised
C13_Witness ==
    /\ apc = "raised"
    /\ TrackedIds # {}
    /\ \E k \in Range(IncomingSensorData(s3)) : ~IsInt(ObjKeyText(k))
    /\ \E k \in Range(IncomingSensorData(s3)) : IsInt(ObjKeyText(k))
    /\ \A i \in 1..Len(running_jobs) : IsInt(JobKeyText(running_jobs[i][1]))
    /\ \A j \in 1..Len(jobs) : ~jobs[j].killReq
-----------------------------------------------------------------------------
(* The Completion Poller *)

InputHandles == Range(wargs.items)

\* a step that is one polling round (the only step that changes cnt)
IsRound == wpc = "polling" /\ wpc' = "polling" /\ cnt' # cnt

\* C3: when wait_for_jobs_finish has returned, the tracked list is empty, the
\* input (a single id or a list) was tracked with one entry per distinct id,
\* and every id of the input was reported SUCCEEDED or FAILED by some query.
C3_ReturnPostcondition ==
    wpc = "returned" =>
        /\ w_running_jobs = <<>>
        /\ Len(all_jobs) = Cardinality(InputHandles)
        /\ Range(all_jobs) = InputHandles
        /\ InputHandles \subseteq reported

\* a list with a duplicate, two distinct ids or more, has been waited for
C3_Witness ==
    /\ wpc = "returned"
    /\ Len(wargs.items) > Len(all_jobs)
    /\ Len(all_jobs) >= 2
    /\ reported = InputHandles

\* C4 as stated: with BigInput (250) distinct handles, a polling round issues
\* ceil(250/100) = 3 status queries.
C4_ThreeQueriesPerRound ==
    (Len(all_jobs) = BigInput /\ roundQueries # <<>>) =>
        Len(roundQueries) = (BigInput + DescribeLimit - 1) \div DescribeLimit

\* C4 amended: with 250 distinct handles, every polling round issues exactly
\* one status query, and it carries at most 100 ids.
C4_OneQueryPerRound ==
    (Len(all_jobs) = BigInput /\ roundQueries # <<>>) =>
        /\ Len(roundQueries) = 1
        /\ Len(roundQueries[1]) <= DescribeLimit

\* after the first round on 250 handles, more than 100 are still tracked
C4_Witness ==
    /\ Len(all_jobs) = BigInput
    /\ wpc = "polling"
    /\ Len(roundQueries) = 1
    /\ Len(roundQueries[1]) = DescribeLimit
    /\ Len(w_running_jobs) > DescribeLimit

C6_TrackedIffNotTerminal ==
    [][ /\ IsRound =>
            /\ Range(w_running_jobs') =
                 Range(w_running_jobs) \
                    {h \in Range(roundQueries'[1]) : handleStatus[h] \in Terminal}
            /\ Len(w_running_jobs') = Cardinality(Range(w_running_jobs'))
            /\ Range(w_running_jobs') = Range(all_jobs) \ reported'
        /\ (/\ IsRound
            /\ w_running_jobs = <<1, 2>>
            /\ handleStatus[1] = "SUCCEEDED"
            /\ handleStatus[2] = "RUNNING") => w_running_jobs' = <<2>>
        /\ wpc' \in {"polling", "returned"} =>
             Range(w_running_jobs') = Range(all_jobs') \ reported'
      ]_vars

\* the example: j1 was reported terminal and left, j2 is still tracked
C6_Witness ==
    /\ wpc = "polling"
    /\ all_jobs = <<1, 2>>
    /\ w_running_jobs = <<2>>
    /\ reported = {1}
    /\ handleStatus[2] = "RUNNING"

AllInputTerminal == \A h \in InputHandles : handleStatus[h] \in Terminal

\* C7: once every job of the input is SUCCEEDED or FAILED (and the queries
\* report it), wait_for_jobs_finish returns, whatever the size of the input,
\* and the step that returns is taken with an empty tracked list and only then.
C7_EventuallyReturns ==
    /\ AllInputTerminal ~> (wpc = "returned")
    /\ [][wpc' = "returned" /\ wpc # "returned" => w_running_jobs = <<>>]_vars
    /\ [](wpc = "polling" /\ w_running_jobs = <<>> => ENABLED WReturn /\ ~ENABLED PollRound)

\* an input of more than 100 ids has been waited for, in three rounds or more
C7_Witness ==
    /\ wpc = "returned"
    /\ Len(all_jobs) = BigInput
    /\ cnt >= 3

SomeInputStuck == \E h \in InputHandles : handleStatus[h] \notin Terminal

\* C8: if some job of the input never becomes SUCCEEDED or FAILED,
\* wait_for_jobs_finish never returns and polls again and again.
C8_NoTimeout ==
    []SomeInputStuck => ([](wpc # "returned") /\ []<><<PollRound>>_vars)

\* a job is still not terminal after PrintEvery - 1 rounds, and the poller polls
C8_Witness ==
    /\ wpc = "polling"
    /\ cnt = PrintEvery - 1
    /\ SomeInputStuck
    /\ w_running_jobs # <<>>
-----------------------------------------------------------------------------
(* The retry wrapper *)

Count(l, v) == Cardinality({i \in 1..Len(l) : l[i] = v})

\* what the body of the wrapped method returns from the last response
BodyResult ==
    CASE rop = "sendBatchJob" -> apiResp
      [] rop = "_describe_jobs" -> apiResp.jobs
      [] rop = "kill_jobs" -> "None"

\* C9: for each wrapped method, a call whose body fails twice with a
\* throttling error and then succeeds returns the result of the third
\* execution, raises nothing, and has slept twice, the second delay longer
\* than the first; after the first and the second throttling error the call
\* goes on (the body starts again); whatever the number of retries the delays
\* increase.
C9_RetryThenSuccess ==
    /\ tries = <<"throttle", "throttle", "ok">> =>
         /\ rpc = "returned"
         /\ rerror = "none"
         /\ rresult = BodyResult
         /\ Len(sleeps) = 2
         /\ sleeps[1] < sleeps[2]
         /\ rop = "kill_jobs" => SubSeq(terminated, Len(terminated) - Len(rarg) + 1,
                                        Len(terminated)) = rarg
    /\ (tries \in {<<"throttle">>, <<"throttle", "throttle">>}) =>
         /\ rpc = "running"
         /\ rerror = "none"
         /\ Len(sleeps) = Len(tries)
    /\ \A i \in 1..(Len(sleeps) - 1) : sleeps[i] < sleeps[i + 1]

\* kill_jobs was throttled twice and then went through its whole list
C9_Witness ==
    /\ rop = "kill_jobs"
    /\ Len(rarg) = 2
    /\ tries = <<"throttle", "throttle", "ok">>
    /\ rpc = "returned"
    /\ sleeps = <<BackoffDelay(0), BackoffDelay(1)>>

\* C10: an error without the rate-limit marker ends the call at once: it is
\* the last execution, it is raised to the caller, and no sleep follows it;
\* every sleep follows a throttling error, and the body is executed at most
\* MaxAttempts times.
C10_OtherErrorsPropagate ==
    /\ \A i \in 1..Len(tries) : tries[i] = "other" =>
         /\ i = Len(tries)
         /\ rpc = "raised"
         /\ rerror = "other"
         /\ Len(sleeps) = i - 1
    /\ Len(sleeps) =
         Count(tries, "throttle") - (IF rpc = "raised" /\ rerror = "throttle" THEN 1 ELSE 0)
    /\ Len(tries) <= MaxAttempts
    /\ rpc = "raised" => rerror \in {"throttle", "other"} /\ rresult = "none"
    /\ (rpc = "raised" /\ rerror = "throttle") => Len(tries) = MaxAttempts

\* kill_jobs met an unmarked error at its second job, after one retry
C10_Witness ==
    /\ rop = "kill_jobs"
    /\ tries = <<"throttle", "other">>
    /\ rpc = "raised"
    /\ rerror = "other"
    /\ Len(sleeps) = 1
    /\ kidx = 2
-----------------------------------------------------------------------------
(* The Active Job Lister *)

\* C11: when get_running_jobs has returned, every entry of the list is a
\* [jobName, jobId] pair of a job of the queue whose status was one of
\* SUBMITTED, PENDING, RUNNABLE, STARTING, RUNNING when it was listed (never
\* SUCCEEDED or FAILED); every job that was active when the call began and is
\* still active is in the list, whatever the number of pages; and when no
\* status changed during the call the list holds exactly the active jobs,
\* once each.
C11_ListsActiveJobs ==
    gpc = "returned" =>
        /\ \A i \in 1..Len(glst) :
             /\ glst[i][2] \in 1..Len(qjobs)
             /\ glst[i][1] = qjobs[glst[i][2]].name
             /\ gseen[i] \in {"SUBMITTED", "PENDING", "RUNNABLE", "STARTING", "RUNNING"}
             /\ gseen[i] \notin {"SUCCEEDED", "FAILED"}
        /\ \A j \in gstart :
             qjobs[j].status \in {"SUBMITTED", "PENDING", "RUNNABLE", "STARTING", "RUNNING"}
                => \E i \in 1..Len(glst) : glst[i][2] = j
        /\ gsteps = 0 =>
             /\ {glst[i][2] : i \in 1..Len(glst)} =
                  {j \in 1..Len(qjobs) : qjobs[j].status \in
                      {"SUBMITTED", "PENDING", "RUNNABLE", "STARTING", "RUNNING"}}
             /\ Len(glst) = Cardinality({glst[i][2] : i \in 1..Len(glst)})

\* the RUNNING jobs fill more than a page, one job is finished, nothing
\* moved: the call returned the RUNNING jobs
C11_Witness ==
    /\ gpc = "returned"
    /\ gsteps = 0
    /\ Cardinality({j \in 1..Len(qjobs) : qjobs[j].status = "RUNNING"}) > PageSize
    /\ Len(glst) = Len(qjobs) - 1
    /\ \E j \in 1..Len(qjobs) : qjobs[j].status \in Terminal
-----------------------------------------------------------------------------
(* Error propagation *)

\* the conditions the error taxonomy recognizes: throttling, already exists,
\* already gone (for s3_object_exist: the missing key)
RecognizedMarks ==
    {"Too Many Requests", "already exists", "BucketAlreadyExists", "database exists",
     "NoSuchBucket", "QueueDoesNotExist", "database doesn't exist", "NoSuchKey",
     "Unknown thread"}

Recognized(e) == e.marks \cap RecognizedMarks # {}

\* C14: no operation catches an error of a remote call that is not one of
\* the recognized conditions, and what an operation raises is the error of the
\* remote call itself.
C14_ErrorsReraised ==
    /\ \A x \in ecaught : Recognized(x.err)
    /\ epc = "raised" => eraised[1].call # "none"

\* the calls C15 names, and for each the message that means the resource is
\* already there (on a create) or already gone (on a delete)
SuccessMark(call) ==
    CASE call \in {"create_compute_environment", "create_job_queue", "create table"} ->
            "already exists"
      [] call \in {"create_bucket", "put_public_access_block"} -> "BucketAlreadyExists"
      [] call = "create database" -> "database exists"
      [] call = "delete_bucket" -> "NoSuchBucket"
      [] call = "delete_queue" -> "QueueDoesNotExist"
      [] call = "drop database" -> "database doesn't exist"
      [] OTHER -> "-"

SuccessEquivalent(x) == SuccessMark(x.call) \in x.err.marks

QueueAttempt == eop = "_generateBatch_ec2_fargate" /\ epc = "running" /\ estep >= 2

\* an attempt found the queue, or none succeeded and none found it
QueueFound == \E x \in ecaught : x.call = "create_job_queue" /\ SuccessEquivalent(x)

\* C26: _generateQueue makes at most 3 attempts of create_job_queue; an
\* attempt that creates the queue, or is told that it already exists, is the
\* last one; and ValueError is raised exactly when no attempt created the
\* queue or was told that it exists.
C26_StopsOnceCreated ==
    /\ [](eop = "_generateBatch_ec2_fargate" => estep - 1 <= 3)
    /\ [][(QueueAttempt /\ ECallOk) => epc' # "running"]_vars
    /\ [][(QueueAttempt /\ ECallFails(Err("ClientError", "already exists")))
             => epc' # "running"]_vars
    /\ []((eop = "_generateBatch_ec2_fargate" /\ epc = "raised" /\ eraised[1].call = "none")
             => (~edone /\ ~QueueFound))
    /\ []((eop = "_generateBatch_ec2_fargate" /\ epc = "returned") => edone)

\* the same without the middle part: an attempt that creates the queue may be
\* followed by further attempts
C26_ThreeAttemptsThenValueError ==
    /\ [](eop = "_generateBatch_ec2_fargate" => estep - 1 <= 3)
    /\ [][(QueueAttempt /\ ECallFails(Err("ClientError", "already exists")))
             => epc' # "running"]_vars
    /\ []((eop = "_generateBatch_ec2_fargate" /\ epc = "raised" /\ eraised[1].call = "none")
             => (~edone /\ ~QueueFound))
    /\ []((eop = "_generateBatch_ec2_fargate" /\ epc = "returned") => edone)

\* three attempts failed and ValueError was raised
C26_Witness ==
    /\ eop = "_generateBatch_ec2_fargate"
    /\ epc = "raised"
    /\ eraised = << [call |-> "none", err |-> ValueError] >>
    /\ estep = 1 + QueueTries
-----------------------------------------------------------------------------
(* watch_sqs *)

\* C16: watch_sqs returns only in a pass whose receive_message response
\* held messages; a pass whose response held none is followed by another pass;
\* and once a message is in the queue, the call returns.
C16_BlocksUntilMessage ==
    /\ [](kpc = "returned" => kresp # <<>>)
    /\ [][ReceiveNothing => (kpc' = "polling" /\ klst' = <<>>)]_vars
    /\ [][(kpc = "polling" /\ kpc' = "returned") =>
             (kresp' # <<>> /\ Range(kresp') \subseteq sqs)]_vars
    /\ (kpc = "polling" /\ sqs # {}) ~> (kpc = "returned")

\* two passes found nothing, the third found a message and returned it
C16_Witness ==
    /\ kpc = "returned"
    /\ kpolls = 3
    /\ ~kpurge
    /\ Len(klst) = 1
    /\ klst = kresp

\* C22: in the pass that ends the wait, with purge_queue false every message
\* of the response is given to delete_message once, in response order, leaves
\* the queue, and the list returned is these receipt handles in that order;
\* with purge_queue true the queue is purged once and left empty, no
\* delete_message is issued and the list returned is empty. A pass that finds
\* nothing deletes and purges nothing.
C22_MessagesHandled ==
    /\ [][(kpc = "polling" /\ kpc' = "returned") =>
             IF kpurge
               THEN /\ kpurges' = 1 /\ kdeletes' = <<>> /\ klst' = <<>> /\ sqs' = {}
               ELSE /\ kpurges' = 0 /\ kdeletes' = kresp' /\ klst' = kresp'
                    /\ sqs' = sqs \ Range(kresp')
                    /\ \A i, j \in 1..Len(kdeletes') : i # j => kdeletes'[i] # kdeletes'[j]]_vars
    /\ [](kpc = "polling" => (kdeletes = <<>> /\ kpurges = 0))

\* a response of MaxBatch messages was deleted and returned while another
\* message stayed in the queue
C22_Witness ==
    /\ kpc = "returned"
    /\ ~kpurge
    /\ Len(klst) = MaxBatch
    /\ kdeletes = klst
    /\ sqs # {}
    /\ karrived = Len(klst) + 1

\* the queue was purged of more messages than the response held
C22_WitnessPurge ==
    /\ kpc = "returned"
    /\ kpurge
    /\ kpurges = 1
    /\ karrived > Len(kresp)
    /\ sqs = {}
-----------------------------------------------------------------------------
(* batch.__init__ *)

\* x and y are the same letter, in whatever case
SameLetter(x, y) ==
    \/ x = y
    \/ <<x, y>> \in {<<"a","A">>, <<"c","C">>, <<"e","E">>, <<"f","F">>, <<"g","G">>,
                     <<"k","K">>, <<"r","R">>, <<"s","S">>, <<"t","T">>}
    \/ <<y, x>> \in {<<"a","A">>, <<"c","C">>, <<"e","E">>, <<"f","F">>, <<"g","G">>,
                     <<"k","K">>, <<"r","R">>, <<"s","S">>, <<"t","T">>}

\* str is opt up to the case of its letters
IsOption(str, opt) ==
    /\ Len(str) = Len(opt)
    /\ \A i \in 1..Len(opt) : SameLetter(str[i], opt[i])

\* C17: the construction ends with ValueError, and without a batch client,
\* exactly when infrastructure_type is none of ec2, eks, fargate (in any
\* case) or is ec2 or fargate with IAM_role None; eks needs no role; and a
\* client exists only after both tests passed.
C17_OptionsValidated ==
    LET known == \E o \in {<<"e","c","2">>, <<"e","k","s">>, <<"f","a","r","g","a","t","e">>} :
                    IsOption(btype, o)
        needsRole == IsOption(btype, <<"e","c","2">>)
                        \/ IsOption(btype, <<"f","a","r","g","a","t","e">>)
        valid == known /\ (needsRole => brole # "None")
    IN /\ bpc = "raised" => (~valid /\ berror = "ValueError" /\ ~bclient)
       /\ bpc \in {"client", "constructed"} => valid
       /\ bpc = "constructed" => (bclient /\ berror = "none")
       /\ bclient => bpc = "constructed"
       /\ IsOption(btype, <<"e","k","s">>) => bpc # "raised"

\* 'EKS' without a role has been constructed
C17_Witness ==
    /\ bpc = "constructed"
    /\ btype = <<"E","K","S">>
    /\ brole = "None"
    /\ bclient
-----------------------------------------------------------------------------
(* batch.removeJobDefinition *)

Throttled == DeregisterFails(Err("ClientError", "Too Many Requests"))

\* C18: removeJobDefinition returns only from a describe_job_definitions
\* response without ACTIVE revision, and then none is left; a deregistration
\* refused with 'Too Many Requests' is followed by a sleep, leaves the call
\* running and the revision ACTIVE (a later pass finds it again); any other
\* error of a deregistration is raised as it is; and the call ends when the
\* deregistrations succeed in the end.
C18_RemovesAllRevisions ==
    /\ [](jpc = "returned" => (jdefs = {} /\ all_defs = <<>>))
    /\ [][jpc' = "returned" => jpc \in {"describe", "returned"}]_vars
    /\ [][Throttled => (/\ jpc' \in {"describe", "deregister"}
                        /\ all_defs[jidx] \in jdefs'
                        /\ jsleeps' = Min(jsleeps + 1, MaxSleeps))]_vars
    /\ [][DeregisterFails(Err("ClientError", "AccessDenied")) =>
             (jpc' = "raised" /\ jerror' = <<Err("ClientError", "AccessDenied")>>)]_vars
    /\ [](jerror # <<>> => (jpc = "raised" /\ ~InStr("Too Many Requests", jerror[1])))
    /\ ([](jpc # "raised") => <>(jpc = "returned"))

\* every revision removed by a call that slept MaxSleeps times at least
C18_Witness ==
    /\ jpc = "returned"
    /\ jsleeps = MaxSleeps
    /\ jdefs = {}
-----------------------------------------------------------------------------
(* SQLHandler.connect *)

\* C19: connect() does not fail on a database that is missing: it creates it;
\* and once connect() has returned, the connection is bound to the database
\* that database_exist asked for and, if one was created, to the created one.
C19_BoundToCheckedDatabase ==
    /\ cpc = "raised" => cerror # <<ER_BAD_DB_ERROR>>
    /\ cpc = "returned" =>
         /\ connection # <<>>
         /\ checked = <<connection[1].db>>
         /\ created \in {<<>>, <<connection[1].db>>}
         /\ exists = FALSE => created = <<connection[1].db>>

\* the same, for the names made of letters only
C19_LetterNamesBound == (Sanitize(database) = database) => C19_BoundToCheckedDatabase

\* a missing database with a letters-only name was created and connected to
C19_LetterWitness ==
    /\ cpc = "returned"
    /\ created = <<database>>
    /\ connection = <<[nodb |-> FALSE, db |-> database]>>
-----------------------------------------------------------------------------
(* evaluate_data *)

\* the jobs evaluate_data has submitted
OwnJobs == {j \in 1..Len(vqueue) : vqueue[j].mine}

\* the names of the submitted jobs, in the order of submission
SubmittedNames == [k \in 1..Cardinality(OwnJobs) |-> vqueue[ListOfSet(OwnJobs)[k]].jobName]

\* the number of rows the spec gives X: one for a 1-D array
RowCount == IF X.ndarray /\ Len(X.shape) = 1 THEN 1 ELSE X.shape[1]

\* C20: the jobs evaluate_data has submitted are named
\* jobDefinitionName-0, jobDefinitionName-1, ... in this order, never more
\* than one per row of X; when the submission loop is over there is exactly
\* one per row (one for a 1-D array); and evaluate_data returns only when
\* every job it submitted is SUCCEEDED or FAILED.
C20_OneJobPerRowThenWait ==
    /\ SubmittedNames = [k \in 1..vi |-> JobName(k - 1)]
    /\ vi <= RowCount
    /\ vpc \in {"list", "wait", "returned", "raised"} => Cardinality(OwnJobs) = RowCount
    /\ vpc = "returned" => \A j \in OwnJobs : vqueue[j].status \in Terminal
    /\ vpc = "raised" => RowCount = 0

\* many rows: the call has returned, after evaluate_data met one of its jobs
\* still active in the listing
C20_Witness ==
    /\ vpc = "returned"
    /\ Cardinality(OwnJobs) = MaxRows
    /\ OwnJobs \cap Range(running_ids) # {}
    /\ \E j \in 1..Len(vqueue) : ~vqueue[j].mine

\* a 1-D array: one job, waited for
C20_WitnessOneRow ==
    /\ vpc = "returned"
    /\ X.ndarray /\ Len(X.shape) = 1 /\ X.shape[1] = MaxCols
    /\ SubmittedNames = <<JobName(0)>>
-----------------------------------------------------------------------------
(* create_s3_buckets *)

\* C21: whenever create_s3_buckets has returned normally, the bucket of that
\* name exists and the call has put the public-access block with all four
\* flags True on it, also when the bucket was reported as already existing.
C21_PublicAccessBlocked ==
    upc = "returned" =>
        /\ bucket # <<>>
        /\ bucket[1].block = FullBlock
        /\ "put_public_access_block" \in Range(ucalls)

\* the same, for the returns that printed nothing
C21_BlockedUnlessReported ==
    (upc = "returned" /\ ulog = <<>>) =>
        /\ bucket # <<>>
        /\ bucket[1].block = FullBlock
        /\ ucalls = <<"create_bucket", "put_public_access_block">>

\* a new bucket was created and blocked
C21_Witness ==
    /\ upc = "returned"
    /\ ucalls = <<"create_bucket", "put_public_access_block">>
    /\ bucket = <<[owner |-> "caller", block |-> FullBlock]>>
-----------------------------------------------------------------------------
(* timestream.delete_table *)

\* C23: when a delete_table call has returned, the table it named is no
\* longer in the database; when it named none, the table given at
\* instantiation is no longer in the database.
C23_DeletesTheTable ==
    (tpc = "ready" /\ tdeletes > 0) =>
        IF targ = <<>> THEN selftable \notin ttables ELSE targ[1] \notin ttables

\* the same, for the calls without table name
C23_DeletesOwnTable ==
    (tpc = "ready" /\ tdeletes > 0 /\ targ = <<>>) => selftable \notin ttables

\* a call without table name has deleted the table of the object and left
\* another table in place
C23_Witness ==
    /\ tpc = "ready"
    /\ tdeletes = 1
    /\ targ = <<>>
    /\ selftable \notin ttables
    /\ ttables # {}
-----------------------------------------------------------------------------
(* containerize *)

\* C24: when the build-and-push of an image starts, a repository with
\* exactly its name exists, for every name of files_to_process.
C24_RepositoryBeforePush ==
    [][\A tagname \in RepoNames : BuildAndPush(tagname) => tagname \in repositories]_vars

\* the same, when no repository name of the registry holds a name of
\* files_to_process as a proper part
C24_RepositoryUnlessPartOfName ==
    [][\A tagname \in RepoNames :
         (BuildAndPush(tagname)
            /\ \A meta \in repositories : Contains(meta, tagname) => meta = tagname)
         => tagname \in repositories]_vars

\* two images are pushed, the repository of one was there, the other was made
C24_Witness ==
    /\ hpc = "build"
    /\ built = Range(files_to_process)
    /\ Cardinality(built) = MaxFiles
    /\ existance = <<TRUE, FALSE>>
    /\ built \subseteq repositories
-----------------------------------------------------------------------------
(* send_asset_property_data *)

\* the property values of a list of entries, one after the other
RECURSIVE ValuesOf(_)
ValuesOf(entries) ==
    IF entries = <<>> THEN <<>>
    ELSE Head(entries).propertyValues \o ValuesOf(Tail(entries))

\* the property values of all the calls so far, one after the other
RECURSIVE SentValues(_)
SentValues(calls) ==
    IF calls = <<>> THEN <<>> ELSE ValuesOf(Head(calls)) \o SentValues(Tail(calls))

\* point i of the input with the time of the same index
Point(i) == [doubleValue |-> data[i], timeInSeconds |-> data_time[i]]

\* C25: each batch_put_asset_property_value call carries at most 10 entries
\* and each entry at most 10 property values; the values sent so far are the
\* first data points in input order, each once and with the time of its own
\* index, and all of them when the call has returned; a response with a
\* non-empty errorEntries raises ValueError, and nothing else does.
C25_ChunkedOnceInOrder ==
    /\ \A c \in 1..Len(icalls) :
         /\ Len(icalls[c]) \in 1..10
         /\ \A k \in 1..Len(icalls[c]) : Len(icalls[c][k].propertyValues) \in 1..10
    /\ Len(SentValues(icalls)) <= Len(data)
    /\ SentValues(icalls) = [i \in 1..Len(SentValues(icalls)) |-> Point(i)]
    /\ ipc = "returned" => Len(SentValues(icalls)) = Len(data)
    /\ HasErrorEntries(iresp) <=> ierror = <<"ValueError">>
    /\ ierror # <<>> <=> ipc = "raised"

\* the largest input was sent in two calls, the second after an empty
\* errorEntries
C25_Witness ==
    /\ ipc = "returned"
    /\ Len(data) = MaxPoints
    /\ Len(icalls) = 2
    /\ Len(icalls[1]) = 10
    /\ Len(icalls[2][Len(icalls[2])].propertyValues) = MaxPoints % 10
    /\ iresp = "errorEntries empty"
    /\ ensure_time_contrain
-----------------------------------------------------------------------------
(* autoscale_sensors: the submissions of one invocation *)

\* the names of the jobs submitted by the invocation under way
SubmittedJobNames == [i \in 1..Len(submitted) |-> jobs[submitted[i]].name]

\* the list l has no value twice
NoRepeat(l) == \A i, j \in 1..Len(l) : i # j => l[i] # l[j]

\* C28: the jobs submitted by one invocation are at most one per expected
\* key and have pairwise different names, also when several objects of the
\* inventory have the same key.
C28_OneJobPerKey ==
    apc = "done" =>
        /\ Len(submitted) <= Cardinality(Range(idnum))
        /\ NoRepeat(SubmittedJobNames)

\* the same, for an inventory whose objects have pairwise different keys
C28_OneJobPerObjectKey == NoRepeat(idnum) => C28_OneJobPerKey

\* two objects with different keys: two jobs with different names
C28_WitnessDistinctKeys ==
    /\ apc = "done"
    /\ Len(idnum) = 2
    /\ NoRepeat(idnum)
    /\ Len(submitted) = 2
-----------------------------------------------------------------------------
(* autoscale_sensors, two invocations at the same time *)

\* C27: with two invocations running at the same time on the same queue and
\* inventory, no key has more than one non-terminal virtual-sensor job and
\* no key is submitted by both invocations.
C27_NoDoubleSubmit ==
    /\ \A k \in ZKeys : zqueue[k] <= 1
    /\ zsubmitted[1] \cap zsubmitted[2] = {}

\* the same, for two invocations of which one lists the queue only after
\* the other has made its submissions
C27_NoDoubleSubmitInTurn == ~zoverlap => C27_NoDoubleSubmit

\* one after the other: the first submitted the missing keys, the second none
C27_WitnessInTurn ==
    /\ ~zoverlap
    /\ zpc = [p \in Invocations |-> "done"]
    /\ zsubmitted[1] = ZKeys
    /\ zsubmitted[2] = {}
-----------------------------------------------------------------------------
(* batch.get_running_jobs while jobs move on *)

\* the job ids of the list built by get_running_jobs
ListedIds == [i \in 1..Len(glst) |-> glst[i][2]]

\* C29: the list of get_running_jobs holds no job id twice, also when jobs
\* go from one status to the next while the listings are collected.
C29_NoDuplicateIds == NoRepeat(ListedIds)

\* a job was listed, moved on to the next status, and was listed again
C29_ListedTwice ==
    /\ gpc = "returned"
    /\ gsteps > 0
    /\ ~NoRepeat(ListedIds)
=============================================================================
